---- MODULE Spec2Model ----
(***************************************************************************)
(* Model of kerykeion_mcp/chart_utils.py: the CSS custom-property resolver *)
(* (resolve_css_variables) and the artifact pipeline built on it.          *)
(*                                                                         *)
(* A Python str is modelled as a sequence of one-character strings, so the *)
(* regular expressions of the source are matched character by character.   *)
(***************************************************************************)
EXTENDS Integers, Sequences, FiniteSets, TLC

(***************************************************************************)
(* Bounds of the model.                                                    *)
(***************************************************************************)
\* a markup is the concatenation of at most MaxSegs pieces of Segments
MaxSegs == 4
\* depth of the nested reference text var(--var(--...var(--a)...)) among the pieces
NestDepth == 3

(***************************************************************************)
(* Characters and the character classes of the regular expressions.        *)
(***************************************************************************)
LowerLetters ==
    {"a", "b", "c", "g", "h", "k", "m", "n", "o", "p", "r", "s", "t", "v", "x", "y"}
UpperLetters == {"A", "C", "M", "N"}
Digits == {"0", "1", "2", "3", "4", "5", "6", "7", "8", "9"}
\* \w of the regular expressions, restricted to the characters of the model
WordChars == LowerLetters \cup UpperLetters \cup Digits \cup {"_"}
\* [\w-]
NameChars == WordChars \cup {"-"}
\* \s, and what str.strip() removes
SpaceChars == {" "}
\* every character of the model's strings
Chars == NameChars \cup SpaceChars \cup {"(", ")", ":", ";", "#", "!", ".", "/", "~"}

\* the literal "var(--" that opens a reference
VarOpen == <<"v", "a", "r", "(", "-", "-">>
\* the fallback '#000000' of var_defs.get(name, '#000000')
Fallback == <<"#", "0", "0", "0", "0", "0", "0">>

(***************************************************************************)
(* Helpers on strings.                                                     *)
(***************************************************************************)
\* index of the last character of the longest run of name characters that
\* starts at i ([\w-]+ is greedy); i - 1 when there is none
RECURSIVE NameEnd(_, _)
NameEnd(s, i) ==
    IF i <= Len(s) /\ s[i] \in NameChars THEN NameEnd(s, i + 1) ELSE i - 1

\* index of the first ";" at or after i, 0 when there is none
FirstSemi(s, i) ==
    LET semis == {k \in i..Len(s) : s[k] = ";"}
    IN  IF semis = {} THEN 0 ELSE CHOOSE k \in semis : \A j \in semis : k <= j

\* str.strip(): leading and trailing whitespace removed
RECURSIVE LStrip(_)
LStrip(s) ==
    IF s # <<>> /\ Head(s) \in SpaceChars THEN LStrip(Tail(s)) ELSE s

RECURSIVE RStrip(_)
RStrip(s) ==
    IF s # <<>> /\ s[Len(s)] \in SpaceChars
    THEN RStrip(SubSeq(s, 1, Len(s) - 1))
    ELSE s

Strip(s) == RStrip(LStrip(s))

\* whether the text t occurs in s at index i
OccursAt(s, t, i) ==
    /\ i + Len(t) - 1 <= Len(s)
    /\ \A k \in 1..Len(t) : s[i + k - 1] = t[k]

\* Python's  t in s  for strings
Contains(s, t) == \E i \in 1..(Len(s) + 1) : OccursAt(s, t, i)

\* the least element of a non-empty set of integers
Least(S) == CHOOSE x \in S : \A y \in S : x <= y

(***************************************************************************)
(* The reference pattern  var\(--([\w-]+)\)                                *)
(***************************************************************************)
\* a reference matches at i: the name run is maximal, since ")" is no name
\* character a shorter run cannot be followed by it
RefAt(s, i) ==
    /\ OccursAt(s, VarOpen, i)
    /\ LET e == NameEnd(s, i + 6)
       IN  e >= i + 6 /\ e < Len(s) /\ s[e + 1] = ")"

\* group(1) of the reference matching at i
RefName(s, i) == SubSeq(s, i + 6, NameEnd(s, i + 6))

\* index of the ")" closing the reference matching at i
RefEnd(s, i) == NameEnd(s, i + 6) + 1

\* the indexes at which a reference matches
RefStarts(s) == {i \in 1..Len(s) : RefAt(s, i)}

\* the matches a left-to-right scan from index i finds (each starts after
\* the end of the one before): their start indexes
RECURSIVE ScanRefs(_, _, _)
ScanRefs(s, i, starts) ==
    LET ahead == {p \in starts : p >= i}
    IN  IF ahead = {} THEN {}
        ELSE LET p == Least(ahead)
             IN  {p} \cup ScanRefs(s, RefEnd(s, p) + 1, starts)

\* the names of the references of s that re.sub / re.finditer finds
RefNames(s) == {RefName(s, p) : p \in ScanRefs(s, 1, RefStarts(s))}

(***************************************************************************)
(* The declaration pattern  --([\w-]+):\s*([^;]+);                         *)
(***************************************************************************)
\* a declaration matches at i: "--", a maximal name run followed by ":",
\* then at least one character before the next ";"
DeclAt(s, i) ==
    /\ OccursAt(s, <<"-", "-">>, i)
    /\ LET e == NameEnd(s, i + 2)
       IN  /\ e >= i + 2
           /\ e < Len(s)
           /\ s[e + 1] = ":"
           /\ FirstSemi(s, e + 2) > e + 2

\* group(1) of the declaration matching at i
DeclName(s, i) == SubSeq(s, i + 2, NameEnd(s, i + 2))

\* index of the ";" ending the declaration matching at i
DeclEnd(s, i) == FirstSemi(s, NameEnd(s, i + 2) + 2)

\* group(2).strip(): \s* takes the leading whitespace (all but one character
\* of it when nothing else precedes the ";"), strip() removes the rest
DeclValue(s, i) == Strip(SubSeq(s, NameEnd(s, i + 2) + 2, DeclEnd(s, i) - 1))

(***************************************************************************)
(* var_defs: a Python dict, kept as the sequence of its items in insertion *)
(* order (the order in which  for ... in var_defs.items()  visits them).   *)
(***************************************************************************)
HasKey(defs, n) == \E k \in 1..Len(defs) : defs[k].name = n

KeyIndex(defs, n) == CHOOSE k \in 1..Len(defs) : defs[k].name = n

\* var_defs.setdefault(n, v): the first declaration of a name is kept
PutFirst(defs, n, v) ==
    IF HasKey(defs, n) THEN defs ELSE Append(defs, [name |-> n, value |-> v])

\* var_defs[n] = v : a new key is appended, an old key keeps its place
Put(defs, n, v) ==
    IF HasKey(defs, n)
    THEN [defs EXCEPT ![KeyIndex(defs, n)].value = v]
    ELSE Append(defs, [name |-> n, value |-> v])

\* var_defs.get(n, '#000000')
Get(defs, n) == IF HasKey(defs, n) THEN defs[KeyIndex(defs, n)].value ELSE Fallback

\* the loop over re.finditer(...) that fills var_defs, from index i on:
\* the next match is the first declaration at or after i, and the scan
\* goes on after its ";"
RECURSIVE ExtractFrom(_, _, _)
ExtractFrom(s, i, defs) ==
    LET ahead == {p \in i..Len(s) : DeclAt(s, p)}
    IN  IF ahead = {} THEN defs
        ELSE LET p == Least(ahead)
             IN  ExtractFrom(s, DeclEnd(s, p) + 1,
                             Put(defs, DeclName(s, p), DeclValue(s, p)))

ExtractDefs(s) == ExtractFrom(s, 1, <<>>)

(***************************************************************************)
(* re.sub(r'var\(--([\w-]+)\)', replace_var, s)                            *)
(***************************************************************************)
\* replace_var without the table: every match becomes '#000000'
RECURSIVE SubFromIgnoringTable(_, _, _, _)
SubFromIgnoringTable(s, i, starts, defs) ==
    LET ahead == {p \in starts : p >= i}
    IN  IF ahead = {} THEN SubSeq(s, i, Len(s))
        ELSE LET p == Least(ahead)
             IN  SubSeq(s, i, p - 1) \o Fallback
                   \o SubFromIgnoringTable(s, RefEnd(s, p) + 1, starts, defs)

\* the text from index i on, with every match replaced by Get(defs, name)
RECURSIVE SubFrom(_, _, _, _)
SubFrom(s, i, starts, defs) ==
    LET ahead == {p \in starts : p >= i}
    IN  IF ahead = {} THEN SubSeq(s, i, Len(s))
        ELSE LET p == Least(ahead)
             IN  SubSeq(s, i, p - 1) \o Get(defs, RefName(s, p))
                   \o SubFrom(s, RefEnd(s, p) + 1, starts, defs)

SubVars(s, defs) == SubFrom(s, 1, RefStarts(s), defs)

(***************************************************************************)
(* One pass of the loop that resolves the declarations against each other: *)
(* the items are visited in dict order, and a value rewritten earlier in   *)
(* the pass is what a later item of the same pass reads.                   *)
(***************************************************************************)
\* resolve_nested that returns '#000000' without looking the name up
NestedValueNoLookup(defs, k) ==
    IF Contains(defs[k].value, VarOpen)
    THEN SubVars(defs[k].value, <<>>)
    ELSE defs[k].value

\* resolve_nested inside re.sub, applied to the value of item k
NestedValue(defs, k) ==
    IF Contains(defs[k].value, VarOpen)
    THEN SubVars(defs[k].value, defs)
    ELSE defs[k].value

RECURSIVE NestedFrom(_, _, _)
NestedFrom(defs, k, upd) ==
    IF k > Len(defs) THEN [defs |-> defs, updated |-> upd]
    ELSE LET new_value == NestedValue(defs, k)
         IN  IF new_value # defs[k].value
             THEN NestedFrom([defs EXCEPT ![k].value = new_value], k + 1, TRUE)
             ELSE NestedFrom(defs, k + 1, upd)

NestedScan(defs) == NestedFrom(defs, 1, FALSE)

\* max_iterations = 10
MaxIterations == 10
\* range(3) of the substitution loop
MaxPasses == 3

\* the declaration loop after n passes: the table it leaves
RECURSIVE NestedLoop(_, _)
NestedLoop(defs, n) ==
    IF n = MaxIterations THEN defs
    ELSE LET r == NestedScan(defs)
         IN  IF r.updated THEN NestedLoop(r.defs, n + 1) ELSE r.defs

\* the substitution loop after n passes: the text it leaves
RECURSIVE SubstLoop(_, _, _)
SubstLoop(s, defs, n) ==
    IF n = MaxPasses THEN s
    ELSE LET new_resolved == SubVars(s, defs)
         IN  IF new_resolved = s THEN s ELSE SubstLoop(new_resolved, defs, n + 1)

\* resolve_css_variables as a function, for the callers that use its value
ResolveCss(s) ==
    LET defs == ExtractDefs(s)
    IN  IF defs = <<>> THEN s ELSE SubstLoop(s, NestedLoop(defs, 0), 0)

(***************************************************************************)
(* The inputs: markup strings.                                             *)
(***************************************************************************)
\* var(--a), and var(--a) wrapped k times in  var(--  ...  )
RECURSIVE NestedRef(_)
NestedRef(k) ==
    IF k = 0 THEN VarOpen \o <<"a", ")">>
    ELSE VarOpen \o NestedRef(k - 1) \o <<")">>

\* --a: var(--b);
DeclAB == <<"-", "-", "a", ":", " ">> \o VarOpen \o <<"b", ")", ";">>
\* --b:var(--c);
DeclBC == <<"-", "-", "b", ":">> \o VarOpen \o <<"c", ")", ";">>
\* --c: r ;
DeclC == <<"-", "-", "c", ":", " ", "r", " ", ";">>
\* --b:var(--a);
DeclBA == <<"-", "-", "b", ":">> \o VarOpen \o <<"a", ")", ";">>
\* --a:a;
DeclAA == <<"-", "-", "a", ":", "a", ";">>
\* --c:
OpenC == <<"-", "-", "c", ":">>

Segments ==
    {DeclAB, DeclBC, DeclC, DeclBA, DeclAA, OpenC, NestedRef(0), NestedRef(NestDepth)}

\* the concatenations of at most n segments
RECURSIVE Concats(_)
Concats(n) ==
    IF n = 0 THEN {<<>>}
    ELSE {<<>>} \cup {s \o t : s \in Segments, t \in Concats(n - 1)}

\* --c:var(--c)x;  a declaration that refers to itself and adds text, alone
\* and followed by a use of it
SelfRef == <<"-", "-", "c", ":">> \o VarOpen \o <<"c", ")", "x", ";">>

Markups == Concats(MaxSegs) \cup {SelfRef, SelfRef \o VarOpen \o <<"c", ")">>}

(***************************************************************************)
(* resolve_css_variables as a state machine.                               *)
(***************************************************************************)
VARIABLES
    svg_string,   \* the argument
    pc,           \* "extract", "nested", "subst", "done"
    var_defs,     \* the dict var_defs
    iter,         \* passes of the declaration loop run so far
    updated,      \* the flag  updated  of the last declaration pass
    resolved,     \* the local  resolved
    passes,       \* passes of the substitution loop run so far
    changed,      \* whether the last substitution pass changed  resolved
    ret,          \* the value returned, once pc = "done"
    rerun         \* whether svg_string is the value an earlier call returned

rvars == <<svg_string, pc, var_defs, iter, updated, resolved, passes, changed, ret, rerun>>

\* the state of generate_and_save_images, its callers and its environment
VARIABLES
    now,          \* the clock, in seconds
    has_cairosvg, \* HAS_CAIROSVG
    dirs,         \* the directories that exist
    files,        \* the files that exist: path -> content
    args,         \* per invocation: the arguments
    ppc,          \* per invocation: where it is; "raised_..." after an exception
    base_name,    \* per invocation: the local  base_name
    out_path,     \* per invocation: the local  out_path
    result,       \* per invocation: the dict  result
    png_bytes,    \* per invocation: the local  png_bytes
    written,      \* per invocation: the paths it has written so far
    backend_in,   \* per invocation: the inputs it has handed to cairosvg.svg2png
    timestamp,    \* per invocation: the local  timestamp
    svg_path_str, \* per invocation: the local  svg_path_str
    png_path_str, \* per invocation: the local  png_path_str
    attempts,     \* per invocation: the operations attempted, with outcome
    earlier       \* per invocation: the invocations returned when it began

pvars == <<now, has_cairosvg, dirs, files, args, ppc, base_name, out_path,
           result, png_bytes, written, backend_in, timestamp, svg_path_str,
           png_path_str, attempts, earlier>>

\* the state of the validators and of the tools that call them
VARIABLES
    call,         \* the function called and its arguments
    vpc,          \* "call" before the function has run, "returned" after
    returned,     \* the value a validator returned
    warnings,     \* the logger.warning calls made, in order
    factory_args  \* what a tool passed to AstrologicalSubjectFactory

vvars == <<call, vpc, returned, warnings, factory_args>>

vars == <<rvars, pvars, vvars>>

\* no validator and no tool is called
ValidatorsUnused ==
    /\ call = <<>>
    /\ vpc = "unused"
    /\ returned = <<>>
    /\ warnings = <<>>
    /\ factory_args = <<>>

\* no invocation of the pipeline exists
PipelineUnused ==
    /\ now = 0
    /\ has_cairosvg = FALSE
    /\ dirs = {}
    /\ files = <<>>
    /\ args = <<>>
    /\ ppc = <<>>
    /\ base_name = <<>>
    /\ out_path = <<>>
    /\ result = <<>>
    /\ png_bytes = <<>>
    /\ written = <<>>
    /\ backend_in = <<>>
    /\ timestamp = <<>>
    /\ svg_path_str = <<>>
    /\ png_path_str = <<>>
    /\ attempts = <<>>
    /\ earlier = <<>>

\* no call of the resolver is followed step by step
ResolverUnused ==
    /\ svg_string = <<>>
    /\ pc = "unused"
    /\ var_defs = <<>>
    /\ iter = 0
    /\ updated = FALSE
    /\ resolved = <<>>
    /\ passes = 0
    /\ changed = FALSE
    /\ ret = <<>>
    /\ rerun = FALSE

Init ==
    /\ svg_string \in Markups
    /\ pc = "extract"
    /\ var_defs = <<>>
    /\ iter = 0
    /\ updated = FALSE
    /\ resolved = <<>>
    /\ passes = 0
    /\ changed = FALSE
    /\ ret = <<>>
    /\ rerun = FALSE
    /\ PipelineUnused
    /\ ValidatorsUnused

\* Extract without the early return of lines 41-42
ExtractNoEarlyReturn ==
    /\ pc = "extract"
    /\ var_defs' = ExtractDefs(svg_string)
    /\ pc' = "nested"
    /\ UNCHANGED <<svg_string, iter, updated, resolved, passes, changed, ret, rerun, pvars, vvars>>

\* lines 36-42: build var_defs; return the argument when it is empty
Extract ==
    /\ pc = "extract"
    /\ var_defs' = ExtractDefs(svg_string)
    /\ IF var_defs' = <<>>
       THEN pc' = "done" /\ ret' = svg_string
       ELSE pc' = "nested" /\ ret' = ret
    /\ UNCHANGED <<svg_string, iter, updated, resolved, passes, changed, rerun, pvars, vvars>>

\* lines 47-60: one pass of  for _ in range(max_iterations); the loop ends
\* at the first pass that updates nothing, or after max_iterations passes,
\* and line 68 then sets  resolved = svg_string
NestedPass ==
    /\ pc = "nested"
    /\ iter < MaxIterations
    /\ LET r == NestedScan(var_defs)
       IN  /\ var_defs' = r.defs
           /\ updated' = r.updated
           /\ iter' = iter + 1
           /\ IF ~r.updated \/ iter + 1 = MaxIterations
              THEN pc' = "subst" /\ resolved' = svg_string
              ELSE pc' = "nested" /\ resolved' = resolved
    /\ UNCHANGED <<svg_string, passes, changed, ret, rerun, pvars, vvars>>

\* the substitution loop as  while True : it ends only at a pass that
\* changes nothing
SubstPassUnbounded ==
    /\ pc = "subst"
    /\ LET new_resolved == SubVars(resolved, var_defs)
       IN  /\ passes' = passes + 1
           /\ changed' = (new_resolved # resolved)
           /\ resolved' = new_resolved
           /\ IF new_resolved = resolved
              THEN pc' = "done" /\ ret' = new_resolved
              ELSE pc' = "subst" /\ ret' = ret
    /\ UNCHANGED <<svg_string, var_defs, iter, updated, rerun, pvars, vvars>>

\* lines 69-76: one pass of  for _ in range(3); the loop ends at the first
\* pass that changes nothing, or after 3 passes, and  resolved  is returned
SubstPass ==
    /\ pc = "subst"
    /\ passes < MaxPasses
    /\ LET new_resolved == SubVars(resolved, var_defs)
       IN  /\ passes' = passes + 1
           /\ changed' = (new_resolved # resolved)
           /\ resolved' = new_resolved
           /\ IF new_resolved = resolved \/ passes + 1 = MaxPasses
              THEN pc' = "done" /\ ret' = new_resolved
              ELSE pc' = "subst" /\ ret' = ret
    /\ UNCHANGED <<svg_string, var_defs, iter, updated, rerun, pvars, vvars>>

Next == Extract \/ NestedPass \/ SubstPass

Spec == Init /\ [][Next]_vars

(***************************************************************************)
(* A caller that resolves the result of an earlier call again.             *)
(***************************************************************************)
\* results longer than this are not resolved again
MaxLen == 200

Recall ==
    /\ pc = "done"
    /\ Len(ret) <= MaxLen
    /\ svg_string' = ret
    /\ rerun' = TRUE
    /\ pc' = "extract"
    /\ var_defs' = <<>>
    /\ iter' = 0
    /\ updated' = FALSE
    /\ resolved' = <<>>
    /\ passes' = 0
    /\ changed' = FALSE
    /\ ret' = <<>>
    /\ UNCHANGED <<pvars, vvars>>

NextTwice == Extract \/ NestedPass \/ SubstPass \/ Recall

SpecTwice == Init /\ [][NextTwice]_vars

(***************************************************************************)
(* generate_and_save_images, svg_to_png and get_chart_output_dir.          *)
(***************************************************************************)
\* the clock runs from 0 to MaxClock seconds
MaxClock == 1

\* the two invocations, which may interleave
Calls == {1, 2}

\* str.lower() of one character
Lower(c) ==
    CASE c = "A" -> "a"
      [] c = "C" -> "c"
      [] c = "M" -> "m"
      [] c = "N" -> "n"
      [] OTHER -> c

\* the sanitizing without .lower()
SafeNameNoLower(chart_name) ==
    [k \in 1..Len(chart_name) |->
        IF chart_name[k] \in NameChars THEN chart_name[k] ELSE "_"]

\* chart_name.lower() without the replacement of the other characters
SafeNameLowerOnly(chart_name) ==
    [k \in 1..Len(chart_name) |-> Lower(chart_name[k])]

\* re.sub(r'[^\w\-]', '_', chart_name.lower())
SafeName(chart_name) ==
    [k \in 1..Len(chart_name) |->
        IF Lower(chart_name[k]) \in NameChars THEN Lower(chart_name[k]) ELSE "_"]

DigitChars == <<"0", "1", "2", "3", "4", "5", "6", "7", "8", "9">>

\* datetime.now().strftime("%Y%m%d_%H%M%S") at second t of the minute
\* 2026-11-01 01:00
Timestamp(t) ==
    <<"2", "0", "2", "6", "1", "1", "0", "1", "_", "0", "1", "0", "0",
      DigitChars[(t \div 10) + 1], DigitChars[(t % 10) + 1]>>

\* the base name without the timestamp:  f"{safe_name}"
BaseNameNoTimestamp(chart_name, t) == SafeName(chart_name)

\* f"{safe_name}_{timestamp}"
BaseName(chart_name, t) == SafeName(chart_name) \o <<"_">> \o Timestamp(t)

SvgExt == <<".", "s", "v", "g">>
PngExt == <<".", "p", "n", "g">>

\* str(out_path / f"{base_name}{ext}")
FilePath(dir, base, ext) == dir \o <<"/">> \o base \o ext

\* the argument output_dir: None, the empty string, or a directory
NoneValue == <<"None">>
OutDir == <<"/", "o">>
\* the same directory, written with a trailing separator:  /o/
OutDirSlash == <<"/", "o", "/">>

\* str(Path(d)): pathlib drops the trailing separators of a path
RECURSIVE PathStr(_)
PathStr(d) ==
    IF Len(d) > 1 /\ d[Len(d)] = "/" THEN PathStr(SubSeq(d, 1, Len(d) - 1))
    ELSE d
\* Path.home() / ".kerykeion_charts", written ~/.k
DefaultDir == <<"~", "/", ".", "k">>

\* the test  x is not None  in the place of the truth value
TruthyNotNone(x) == x # NoneValue

\* Python's truth value of an Optional[str] or Optional[bytes]
Truthy(x) == x # NoneValue /\ x # <<>>

\* the logical names:  My Chart!!  and  ../x
NameMyChart == <<"M", "y", " ", "C", "h", "a", "r", "t", "!", "!">>
NameDotDot == <<".", ".", "/", "x">>

\* the markups:  --a:a;var(--a)  and  var(--a)
MarkupDeclared == DeclAA \o NestedRef(0)
MarkupBare == NestedRef(0)

\* svg_resolved.encode('utf-8'): one byte per character of the model
Utf8(s) == [k \in 1..Len(s) |-> <<"byte", s[k]>>]

\* the file with the resolved markup instead of the markup
WriteTextResolved(s) == [kind |-> "text", data |-> Utf8(ResolveCss(s))]

\* what  svg_path.write_text(s, encoding='utf-8')  leaves in the file
WriteText(s) == [kind |-> "text", data |-> Utf8(s)]

\* the backend called on the markup as it came
BackendInputUnresolved(svg) == Utf8(svg)

\* lines 97-100: the bytestring svg_to_png hands to cairosvg.svg2png
BackendInput(svg) == Utf8(ResolveCss(svg))

\* the bytes cairosvg.svg2png returns for an input, when it returns some
Rasterized(bytestring) == <<"PNG">> \o bytestring

\* what the backend does with one call: return the image, return no bytes,
\* or raise
BackendOutcomes == {"image", "empty", "raise"}

\* f"Chart generated successfully. SVG: {svg or 'N/A'}, PNG: {png or 'N/A'}"
NotAvailable == <<"N", "/", "A">>
Summary(svg_str, png_str) ==
    <<"Chart generated successfully. SVG: ">>
        \o (IF Truthy(svg_str) THEN svg_str ELSE NotAvailable)
        \o <<", PNG: ">>
        \o (IF Truthy(png_str) THEN png_str ELSE NotAvailable)

\* the requests of the two invocations
Requests(p) ==
    [svg_string : {IF p = 1 THEN MarkupDeclared ELSE MarkupBare},
     chart_name : IF p = 1 THEN {NameMyChart, NameDotDot} ELSE {NameMyChart},
     output_dir : {NoneValue, OutDir}
                     \cup (IF p = 1 THEN {OutDirSlash} ELSE {<<>>}),
     save_svg   : BOOLEAN,
     save_png   : BOOLEAN]

\* a file that is in OutDir before any invocation runs
OldFile == FilePath(OutDir, <<"o", "l", "d">>, SvgExt)
OldContent == WriteText(<<"x">>)

InitPipeline ==
    /\ now = 0
    /\ has_cairosvg \in BOOLEAN
    /\ \/ dirs = {} /\ files = <<>>
       \/ dirs = {OutDir, DefaultDir} /\ files = (OldFile :> OldContent)
    /\ args \in [Calls -> UNION {Requests(p) : p \in Calls}]
    /\ \A p \in Calls : args[p] \in Requests(p)
    /\ ppc = [p \in Calls |-> "begin"]
    /\ base_name = [p \in Calls |-> <<>>]
    /\ out_path = [p \in Calls |-> <<>>]
    /\ result = [p \in Calls |-> <<>>]
    /\ png_bytes = [p \in Calls |-> NoneValue]
    /\ written = [p \in Calls |-> {}]
    /\ backend_in = [p \in Calls |-> <<>>]
    /\ timestamp = [p \in Calls |-> <<>>]
    /\ svg_path_str = [p \in Calls |-> NoneValue]
    /\ png_path_str = [p \in Calls |-> NoneValue]
    /\ attempts = [p \in Calls |-> <<>>]
    /\ earlier = [p \in Calls |-> {}]
    /\ ResolverUnused
    /\ ValidatorsUnused

\* the clock advances
Tick ==
    /\ now < MaxClock
    /\ now' = now + 1
    /\ UNCHANGED <<has_cairosvg, dirs, files, args, ppc, base_name, out_path,
                   result, png_bytes, written, backend_in, timestamp,
                   svg_path_str, png_path_str, attempts, earlier, rvars, vvars>>

\* lines 192-195: the base name, from the sanitized name and the clock
Begin(p) ==
    /\ ppc[p] = "begin"
    /\ timestamp' = [timestamp EXCEPT ![p] = Timestamp(now)]
    /\ base_name' = [base_name EXCEPT ![p] = BaseName(args[p].chart_name, now)]
    /\ earlier' = [earlier EXCEPT ![p] = {q \in Calls : ppc[q] = "done"}]
    /\ ppc' = [ppc EXCEPT ![p] = "dir"]
    /\ UNCHANGED <<now, has_cairosvg, dirs, files, args, out_path, result,
                   png_bytes, written, backend_in, svg_path_str, png_path_str,
                   attempts, rvars, vvars>>

\* the default directory whatever the caller supplies
ResolvedDirAlwaysDefault(p) == DefaultDir

\* the directory lines 198-202 resolve: Path(output_dir) when output_dir is
\* truthy, else the default of get_chart_output_dir (lines 154-156)
ResolvedDir(p) ==
    IF Truthy(args[p].output_dir) THEN PathStr(args[p].output_dir) ELSE DefaultDir

\* one operation attempted, and whether it succeeded
Event(op, ok) == [op |-> op, ok |-> ok]

\* mkdir(parents=True) without exist_ok: a directory that exists raises
MakeDirNoExistOk(p) ==
    /\ ppc[p] = "dir"
    /\ LET d == ResolvedDir(p)
       IN  \/ /\ d \notin dirs
              /\ dirs' = dirs \cup {d}
              /\ out_path' = [out_path EXCEPT ![p] = d]
              /\ result' = [result EXCEPT ![p] =
                               ("status" :> "success") @@ ("output_dir" :> d)]
              /\ attempts' = [attempts EXCEPT ![p] = Append(@, Event("mkdir", TRUE))]
              /\ ppc' = [ppc EXCEPT ![p] = "svg"]
           \/ /\ ppc' = [ppc EXCEPT ![p] = "raised_mkdir"]
              /\ attempts' = [attempts EXCEPT ![p] = Append(@, Event("mkdir", FALSE))]
              /\ UNCHANGED <<dirs, out_path, result>>
    /\ UNCHANGED <<now, has_cairosvg, files, args, base_name, png_bytes,
                   written, backend_in, timestamp, svg_path_str, png_path_str,
                   earlier, rvars, vvars>>

\* lines 197-210: mkdir(parents=True, exist_ok=True) succeeds when the
\* directory exists, creates it or raises when it does not; then  result
\* is set up, and svg_path_str and png_path_str are None
MakeDir(p) ==
    /\ ppc[p] = "dir"
    /\ LET d == ResolvedDir(p)
       IN  \/ /\ dirs' = dirs \cup {d}
              /\ out_path' = [out_path EXCEPT ![p] = d]
              /\ result' = [result EXCEPT ![p] =
                               ("status" :> "success") @@ ("output_dir" :> d)]
              /\ svg_path_str' = [svg_path_str EXCEPT ![p] = NoneValue]
              /\ png_path_str' = [png_path_str EXCEPT ![p] = NoneValue]
              /\ attempts' = [attempts EXCEPT ![p] = Append(@, Event("mkdir", TRUE))]
              /\ ppc' = [ppc EXCEPT ![p] = "svg"]
           \/ /\ d \notin dirs
              /\ ppc' = [ppc EXCEPT ![p] = "raised_mkdir"]
              /\ attempts' = [attempts EXCEPT ![p] = Append(@, Event("mkdir", FALSE))]
              /\ UNCHANGED <<dirs, out_path, result, svg_path_str, png_path_str>>
    /\ UNCHANGED <<now, has_cairosvg, files, args, base_name, png_bytes,
                   written, backend_in, timestamp, earlier, rvars, vvars>>

\* the vector write as a best-effort step: a failed write is passed over
WriteSvgBestEffort(p) ==
    /\ ppc[p] = "svg"
    /\ LET svg_path == FilePath(out_path[p], base_name[p], SvgExt)
       IN  IF args[p].save_svg
           THEN \/ /\ files' = (svg_path :> WriteText(args[p].svg_string)) @@ files
                   /\ written' = [written EXCEPT ![p] = @ \cup {svg_path}]
                   /\ svg_path_str' = [svg_path_str EXCEPT ![p] = svg_path]
                   /\ result' = [result EXCEPT ![p] = ("svg_path" :> svg_path) @@ @]
                   /\ attempts' = [attempts EXCEPT ![p] =
                                      Append(@, Event("write_svg", TRUE))]
                \/ /\ attempts' = [attempts EXCEPT ![p] =
                                      Append(@, Event("write_svg", FALSE))]
                   /\ UNCHANGED <<files, written, svg_path_str, result>>
           ELSE UNCHANGED <<files, written, svg_path_str, result, attempts>>
    /\ ppc' = [ppc EXCEPT ![p] = "png"]
    /\ UNCHANGED <<now, has_cairosvg, dirs, args, base_name, out_path,
                   png_bytes, backend_in, timestamp, png_path_str, earlier, rvars, vvars>>

\* lines 212-217: write_text of the markup, which succeeds or raises
WriteSvg(p) ==
    /\ ppc[p] = "svg"
    /\ LET svg_path == FilePath(out_path[p], base_name[p], SvgExt)
       IN  IF args[p].save_svg
           THEN \/ /\ files' = (svg_path :> WriteText(args[p].svg_string)) @@ files
                   /\ written' = [written EXCEPT ![p] = @ \cup {svg_path}]
                   /\ svg_path_str' = [svg_path_str EXCEPT ![p] = svg_path]
                   /\ result' = [result EXCEPT ![p] = ("svg_path" :> svg_path) @@ @]
                   /\ attempts' = [attempts EXCEPT ![p] =
                                      Append(@, Event("write_svg", TRUE))]
                   /\ ppc' = [ppc EXCEPT ![p] = "png"]
                \/ /\ ppc' = [ppc EXCEPT ![p] = "raised_svg"]
                   /\ attempts' = [attempts EXCEPT ![p] =
                                      Append(@, Event("write_svg", FALSE))]
                   /\ UNCHANGED <<files, written, svg_path_str, result>>
           ELSE /\ ppc' = [ppc EXCEPT ![p] = "png"]
                /\ UNCHANGED <<files, written, svg_path_str, result, attempts>>
    /\ UNCHANGED <<now, has_cairosvg, dirs, args, base_name, out_path,
                   png_bytes, backend_in, timestamp, png_path_str, earlier, rvars, vvars>>

\* svg_to_png, lines 91-108, with the backend answering  outcome : None
\* without cairosvg and when the backend raises, else what the backend
\* returns for the encoded resolved markup
SvgToPng(svg, outcome) ==
    IF ~has_cairosvg THEN NoneValue
    ELSE IF outcome = "raise" THEN NoneValue
    ELSE IF outcome = "empty" THEN <<>>
    ELSE Rasterized(BackendInput(svg))

\* the conversion without the try/except of lines 95-108: an exception
\* of the backend leaves generate_and_save_images
ConvertNoExcept(p) ==
    /\ ppc[p] = "png"
    /\ IF args[p].save_png /\ has_cairosvg
       THEN \E outcome \in BackendOutcomes :
               /\ png_bytes' = [png_bytes EXCEPT ![p] =
                                   SvgToPng(args[p].svg_string, outcome)]
               /\ backend_in' = [backend_in EXCEPT ![p] =
                                    Append(@, BackendInput(args[p].svg_string))]
               /\ attempts' = [attempts EXCEPT ![p] =
                                  Append(@, Event("convert", outcome # "raise"))]
               /\ ppc' = [ppc EXCEPT ![p] =
                             IF outcome = "raise" THEN "raised_png" ELSE "write_png"]
       ELSE /\ UNCHANGED <<png_bytes, backend_in, attempts>>
            /\ ppc' = [ppc EXCEPT ![p] = "write_png"]
    /\ UNCHANGED <<now, has_cairosvg, dirs, files, args, base_name, out_path,
                   result, written, timestamp, svg_path_str, png_path_str,
                   earlier, rvars, vvars>>

\* lines 219-220: the conversion, when save_png and HAS_CAIROSVG
Convert(p) ==
    /\ ppc[p] = "png"
    /\ IF args[p].save_png /\ has_cairosvg
       THEN \E outcome \in BackendOutcomes :
               /\ png_bytes' = [png_bytes EXCEPT ![p] =
                                   SvgToPng(args[p].svg_string, outcome)]
               /\ backend_in' = [backend_in EXCEPT ![p] =
                                    Append(@, BackendInput(args[p].svg_string))]
               /\ attempts' = [attempts EXCEPT ![p] =
                                  Append(@, Event("convert", outcome # "raise"))]
       ELSE UNCHANGED <<png_bytes, backend_in, attempts>>
    /\ ppc' = [ppc EXCEPT ![p] = "write_png"]
    /\ UNCHANGED <<now, has_cairosvg, dirs, files, args, base_name, out_path,
                   result, written, timestamp, svg_path_str, png_path_str,
                   earlier, rvars, vvars>>

\* the raster write with one retry: after a first failed write the write
\* is attempted again
WritePngRetry(p) ==
    /\ ppc[p] = "write_png"
    /\ LET png_path == FilePath(out_path[p], base_name[p], PngExt)
           tried == Cardinality({k \in 1..Len(attempts[p]) :
                                    attempts[p][k].op = "write_png"})
       IN  IF Truthy(png_bytes[p])
           THEN \/ /\ files' = (png_path :> [kind |-> "bytes", data |-> png_bytes[p]])
                                   @@ files
                   /\ written' = [written EXCEPT ![p] = @ \cup {png_path}]
                   /\ png_path_str' = [png_path_str EXCEPT ![p] = png_path]
                   /\ result' = [result EXCEPT ![p] = ("png_path" :> png_path) @@ @]
                   /\ attempts' = [attempts EXCEPT ![p] =
                                      Append(@, Event("write_png", TRUE))]
                   /\ ppc' = [ppc EXCEPT ![p] = "summary"]
                \/ /\ ppc' = [ppc EXCEPT ![p] =
                                 IF tried = 0 THEN "write_png" ELSE "raised_png"]
                   /\ attempts' = [attempts EXCEPT ![p] =
                                      Append(@, Event("write_png", FALSE))]
                   /\ UNCHANGED <<files, written, png_path_str, result>>
           ELSE /\ ppc' = [ppc EXCEPT ![p] = "summary"]
                /\ UNCHANGED <<files, written, png_path_str, result, attempts>>
    /\ UNCHANGED <<now, has_cairosvg, dirs, args, base_name, out_path,
                   png_bytes, backend_in, timestamp, svg_path_str, earlier, rvars, vvars>>

\* the raster write with a rollback: when it fails, the files the
\* invocation has written are removed before the exception leaves
WritePngRollback(p) ==
    /\ ppc[p] = "write_png"
    /\ LET png_path == FilePath(out_path[p], base_name[p], PngExt)
       IN  IF Truthy(png_bytes[p])
           THEN \/ /\ files' = (png_path :> [kind |-> "bytes", data |-> png_bytes[p]])
                                   @@ files
                   /\ written' = [written EXCEPT ![p] = @ \cup {png_path}]
                   /\ png_path_str' = [png_path_str EXCEPT ![p] = png_path]
                   /\ result' = [result EXCEPT ![p] = ("png_path" :> png_path) @@ @]
                   /\ attempts' = [attempts EXCEPT ![p] =
                                      Append(@, Event("write_png", TRUE))]
                   /\ ppc' = [ppc EXCEPT ![p] = "summary"]
                \/ /\ ppc' = [ppc EXCEPT ![p] = "raised_png"]
                   /\ files' = [f \in DOMAIN files \ written[p] |-> files[f]]
                   /\ attempts' = [attempts EXCEPT ![p] =
                                      Append(@, Event("write_png", FALSE))]
                   /\ UNCHANGED <<written, png_path_str, result>>
           ELSE /\ ppc' = [ppc EXCEPT ![p] = "summary"]
                /\ UNCHANGED <<files, written, png_path_str, result, attempts>>
    /\ UNCHANGED <<now, has_cairosvg, dirs, args, base_name, out_path,
                   png_bytes, backend_in, timestamp, svg_path_str, earlier,
                   rvars, vvars>>

\* lines 221-226: write_bytes of the image, which succeeds or raises
WritePng(p) ==
    /\ ppc[p] = "write_png"
    /\ LET png_path == FilePath(out_path[p], base_name[p], PngExt)
       IN  IF Truthy(png_bytes[p])
           THEN \/ /\ files' = (png_path :> [kind |-> "bytes", data |-> png_bytes[p]])
                                   @@ files
                   /\ written' = [written EXCEPT ![p] = @ \cup {png_path}]
                   /\ png_path_str' = [png_path_str EXCEPT ![p] = png_path]
                   /\ result' = [result EXCEPT ![p] = ("png_path" :> png_path) @@ @]
                   /\ attempts' = [attempts EXCEPT ![p] =
                                      Append(@, Event("write_png", TRUE))]
                   /\ ppc' = [ppc EXCEPT ![p] = "summary"]
                \/ /\ ppc' = [ppc EXCEPT ![p] = "raised_png"]
                   /\ attempts' = [attempts EXCEPT ![p] =
                                      Append(@, Event("write_png", FALSE))]
                   /\ UNCHANGED <<files, written, png_path_str, result>>
           ELSE /\ ppc' = [ppc EXCEPT ![p] = "summary"]
                /\ UNCHANGED <<files, written, png_path_str, result, attempts>>
    /\ UNCHANGED <<now, has_cairosvg, dirs, args, base_name, out_path,
                   png_bytes, backend_in, timestamp, svg_path_str, earlier, rvars, vvars>>

\* result.get(key), None when the key is absent
ResultGet(r, key) == IF key \in DOMAIN r THEN r[key] ELSE NoneValue

\* the summary composed from the flags save_svg and save_png instead of
\* the paths that were written
ReturnSummaryFromFlags(p) ==
    /\ ppc[p] = "summary"
    /\ result' = [result EXCEPT ![p] =
          ("summary" :> Summary(
              IF args[p].save_svg
              THEN FilePath(out_path[p], base_name[p], SvgExt) ELSE NoneValue,
              IF args[p].save_png
              THEN FilePath(out_path[p], base_name[p], PngExt) ELSE NoneValue)) @@ @]
    /\ ppc' = [ppc EXCEPT ![p] = "done"]
    /\ UNCHANGED <<now, has_cairosvg, dirs, files, args, base_name, out_path,
                   png_bytes, written, backend_in, timestamp, svg_path_str,
                   png_path_str, attempts, earlier, rvars, vvars>>

\* lines 228-234: the summary is composed from svg_path_str and
\* png_path_str, and  result  is returned
Return(p) ==
    /\ ppc[p] = "summary"
    /\ result' = [result EXCEPT ![p] =
                     ("summary" :> Summary(svg_path_str[p], png_path_str[p])) @@ @]
    /\ ppc' = [ppc EXCEPT ![p] = "done"]
    /\ UNCHANGED <<now, has_cairosvg, dirs, files, args, base_name, out_path,
                   png_bytes, written, backend_in, timestamp, svg_path_str,
                   png_path_str, attempts, earlier, rvars, vvars>>

NextPipeline ==
    \/ Tick
    \/ \E p \in Calls :
          Begin(p) \/ MakeDir(p) \/ WriteSvg(p) \/ Convert(p) \/ WritePng(p) \/ Return(p)

SpecPipeline == InitPipeline /\ [][NextPipeline]_vars

(***************************************************************************)
(* The validation helpers, lines 238-314, and the tools that call them.    *)
(***************************************************************************)
LowerAlpha == <<"a", "b", "c", "d", "e", "f", "g", "h", "i", "j", "k", "l", "m", "n", "o", "p", "q", "r", "s", "t", "u", "v", "w", "x", "y", "z">>
UpperAlpha == <<"A", "B", "C", "D", "E", "F", "G", "H", "I", "J", "K", "L", "M", "N", "O", "P", "Q", "R", "S", "T", "U", "V", "W", "X", "Y", "Z">>

\* the index of c in the sequence alpha, 0 when c is not in it
IndexIn(alpha, c) ==
    IF \E k \in 1..Len(alpha) : alpha[k] = c
    THEN CHOOSE k \in 1..Len(alpha) : alpha[k] = c
    ELSE 0

\* str.lower() of one character: an upper-case letter becomes the
\* lower-case one, the Kelvin sign becomes k, and every other character of
\* the model stays
CharLower(c) ==
    IF IndexIn(UpperAlpha, c) > 0 THEN <<LowerAlpha[IndexIn(UpperAlpha, c)]>>
    ELSE IF c = "K_kelvin" THEN <<"k">>
    ELSE <<c>>

\* str.upper() of one character: a lower-case letter becomes the
\* upper-case one, the dotless i becomes I, the sharp s becomes SS, and
\* every other character of the model stays
CharUpper(c) ==
    IF IndexIn(LowerAlpha, c) > 0 THEN <<UpperAlpha[IndexIn(LowerAlpha, c)]>>
    ELSE IF c = "i_dotless" THEN <<"I">>
    ELSE IF c = "s_sharp" THEN <<"S", "S">>
    ELSE <<c>>

RECURSIVE StrLower(_)
StrLower(s) == IF s = <<>> THEN <<>> ELSE CharLower(Head(s)) \o StrLower(Tail(s))

RECURSIVE StrUpper(_)
StrUpper(s) == IF s = <<>> THEN <<>> ELSE CharUpper(Head(s)) \o StrUpper(Tail(s))

\* the elements of a list
Items(list) == {list[k] : k \in 1..Len(list)}

\* line 239
VALID_THEMES ==
    << <<"c", "l", "a", "s", "s", "i", "c">>,
       <<"l", "i", "g", "h", "t">>,
       <<"d", "a", "r", "k">>,
       <<"s", "t", "r", "a", "w", "b", "e", "r", "r", "y">>,
       <<"d", "a", "r", "k", "-", "h", "i", "g", "h", "-", "c", "o", "n", "t", "r", "a", "s", "t">> >>

\* line 240
VALID_LANGUAGES ==
    << <<"E", "N">>,
       <<"I", "T">>,
       <<"F", "R">>,
       <<"E", "S">>,
       <<"P", "T">>,
       <<"C", "N">>,
       <<"R", "U">>,
       <<"T", "R">>,
       <<"D", "E">>,
       <<"H", "I">> >>

\* lines 241-251: the keys of the dict
VALID_HOUSE_SYSTEMS ==
    << <<"P">>,
       <<"W">>,
       <<"K">>,
       <<"A">>,
       <<"C">>,
       <<"R">>,
       <<"M">>,
       <<"O">>,
       <<"G">> >>

\* line 252
VALID_ZODIAC_TYPES ==
    << <<"T", "r", "o", "p", "i", "c", "a", "l">>,
       <<"S", "i", "d", "e", "r", "e", "a", "l">> >>

\* lines 253-256
VALID_SIDEREAL_MODES ==
    << <<"F", "A", "G", "A", "N", "_", "B", "R", "A", "D", "L", "E", "Y">>,
       <<"L", "A", "H", "I", "R", "I">>,
       <<"D", "E", "L", "U", "C", "E">>,
       <<"R", "A", "M", "A", "N">>,
       <<"U", "S", "H", "A", "S", "H", "A", "S", "H", "I">>,
       <<"K", "R", "I", "S", "H", "N", "A", "M", "U", "R", "T", "I">>,
       <<"D", "J", "W", "H", "A", "L", "_", "K", "H", "O", "O", "L">>,
       <<"Y", "U", "K", "T", "E", "S", "W", "A", "R">>,
       <<"J", "N", "_", "B", "H", "A", "S", "I", "N">>,
       <<"H", "I", "N", "D", "U", "_", "L", "A", "H", "I", "R", "I">> >>

\* line 257
VALID_PERSPECTIVE_TYPES ==
    << <<"A", "p", "p", "a", "r", "e", "n", "t", " ", "G", "e", "o", "c", "e", "n", "t", "r", "i", "c">>,
       <<"H", "e", "l", "i", "o", "c", "e", "n", "t", "r", "i", "c">>,
       <<"T", "o", "p", "o", "c", "e", "n", "t", "r", "i", "c">> >>

\* line 258
VALID_CHART_STYLES ==
    << <<"f", "u", "l", "l">>,
       <<"w", "h", "e", "e", "l", "_", "o", "n", "l", "y">>,
       <<"a", "s", "p", "e", "c", "t", "_", "g", "r", "i", "d">> >>


\* one call of logger.warning: which validator warned, and about what input
Warning(validator, input) == [validator |-> validator, input |-> input]

\* what a validator does: the value it returns and the warnings it logs
Outcome(value, warned) == [value |-> value, warned |-> warned]

DefaultTheme == <<"c", "l", "a", "s", "s", "i", "c">>
DefaultLanguage == <<"E", "N">>
DefaultHouseSystem == <<"P">>
DefaultChartStyle == <<"f", "u", "l", "l">>
DefaultPerspective == VALID_PERSPECTIVE_TYPES[1]

\* validate_theme returning its argument as it came when it is valid
validate_theme_unnormalized(theme) ==
    IF StrLower(theme) \in Items(VALID_THEMES)
    THEN Outcome(theme, <<>>)
    ELSE Outcome(DefaultTheme, <<Warning("theme", theme)>>)

\* lines 261-266
validate_theme(theme) ==
    IF StrLower(theme) \in Items(VALID_THEMES)
    THEN Outcome(StrLower(theme), <<>>)
    ELSE Outcome(DefaultTheme, <<Warning("theme", theme)>>)

\* lines 269-275
validate_language(language) ==
    LET lang_upper == StrUpper(language)
    IN  IF lang_upper \in Items(VALID_LANGUAGES)
        THEN Outcome(lang_upper, <<>>)
        ELSE Outcome(DefaultLanguage, <<Warning("language", language)>>)

\* lines 278-284
validate_house_system(house_system) ==
    LET hs_upper == StrUpper(house_system)
    IN  IF hs_upper \in Items(VALID_HOUSE_SYSTEMS)
        THEN Outcome(hs_upper, <<>>)
        ELSE Outcome(DefaultHouseSystem, <<Warning("house_system", house_system)>>)

\* validate_sidereal_mode with a concrete default, LAHIRI, for an invalid
\* mode
validate_sidereal_mode_defaulting(sidereal_mode) ==
    IF sidereal_mode = NoneValue THEN Outcome(NoneValue, <<>>)
    ELSE LET mode_upper == StrUpper(sidereal_mode)
         IN  IF mode_upper \in Items(VALID_SIDEREAL_MODES)
             THEN Outcome(mode_upper, <<>>)
             ELSE Outcome(VALID_SIDEREAL_MODES[2],
                          <<Warning("sidereal_mode", sidereal_mode)>>)

\* lines 287-295
validate_sidereal_mode(sidereal_mode) ==
    IF sidereal_mode = NoneValue THEN Outcome(NoneValue, <<>>)
    ELSE LET mode_upper == StrUpper(sidereal_mode)
         IN  IF mode_upper \in Items(VALID_SIDEREAL_MODES)
             THEN Outcome(mode_upper, <<>>)
             ELSE Outcome(NoneValue, <<Warning("sidereal_mode", sidereal_mode)>>)

\* line 303: the test the loop makes for one valid type
PerspectiveMatches(pt_lower, valid) ==
    pt_lower = StrLower(valid) \/ Contains(StrLower(valid), pt_lower)

\* validate_perspective_type matching whole names only
validate_perspective_type_exact(perspective_type) ==
    LET pt_lower == StrLower(perspective_type)
        hits == {k \in 1..Len(VALID_PERSPECTIVE_TYPES) :
                    pt_lower = StrLower(VALID_PERSPECTIVE_TYPES[k])}
    IN  IF hits # {}
        THEN Outcome(VALID_PERSPECTIVE_TYPES[Least(hits)], <<>>)
        ELSE Outcome(DefaultPerspective,
                     <<Warning("perspective_type", perspective_type)>>)

\* lines 298-306: the first valid type, in the order of the list, that the
\* test of line 303 accepts
validate_perspective_type(perspective_type) ==
    LET pt_lower == StrLower(perspective_type)
        hits == {k \in 1..Len(VALID_PERSPECTIVE_TYPES) :
                    PerspectiveMatches(pt_lower, VALID_PERSPECTIVE_TYPES[k])}
    IN  IF hits # {}
        THEN Outcome(VALID_PERSPECTIVE_TYPES[Least(hits)], <<>>)
        ELSE Outcome(DefaultPerspective,
                     <<Warning("perspective_type", perspective_type)>>)

\* lines 309-314
validate_chart_style(chart_style) ==
    IF StrLower(chart_style) \in Items(VALID_CHART_STYLES)
    THEN Outcome(StrLower(chart_style), <<>>)
    ELSE Outcome(DefaultChartStyle, <<Warning("chart_style", chart_style)>>)

\* every spelling of the word w in upper-case and lower-case letters
RECURSIVE CaseVariants(_)
CaseVariants(w) ==
    IF w = <<>> THEN {<<>>}
    ELSE {c \o r : c \in {CharLower(Head(w)), CharUpper(Head(w))},
                   r \in CaseVariants(Tail(w))}

\* arguments of validate_theme besides the spellings of "dark"
OtherThemes ==
    { <<"n", "e", "o", "n">>,
      <<>>,
      <<"d", "a", "r", "k", " ">>,
      <<"c", "l", "a", "s", "s", "i", "c">>,
      <<"D", "a", "r", "k", "-", "H", "i", "g", "h", "-", "C", "o", "n", "t", "r", "a", "s", "t">>,
      <<"d", "a", "r", "k", "_", "h", "i", "g", "h", "_", "c", "o", "n", "t", "r", "a", "s", "t">>,
      <<"E", "N">>,
      <<"d", "a", "r", "K_kelvin">>,
      <<"c", "l", "a", "s_sharp", "i", "c">> }

\* arguments of validate_language besides the spellings of "it"
OtherLanguages ==
    { <<"E", "N">>,
      <<"x", "x">>,
      <<>>,
      <<"E", "N", "G">>,
      <<"e">>,
      <<"h", "i">>,
      <<"i_dotless", "t">>,
      <<"e", "s_sharp">> }

\* arguments of validate_house_system besides the spellings of "p"
OtherHouseSystems ==
    { <<"w">>,
      <<"Z">>,
      <<>>,
      <<"p", "p">>,
      <<"P", "l", "a", "c", "i", "d", "u", "s">>,
      <<"g">>,
      <<"s_sharp">> }

\* arguments of validate_sidereal_mode besides None and the spellings of "raman"
OtherSiderealModes ==
    { <<"b", "o", "g", "u", "s">>,
      <<>>,
      <<"L", "A", "H", "I", "R", "I">>,
      <<"f", "a", "g", "a", "n", "_", "b", "r", "a", "d", "l", "e", "y">>,
      <<"f", "a", "g", "a", "n", "-", "b", "r", "a", "d", "l", "e", "y">>,
      <<"l", "a", "h", "i", "r", "i", " ">>,
      <<"H", "i", "n", "d", "u", "_", "L", "a", "h", "i", "r", "i">>,
      <<"N", "o", "n", "e">>,
      <<"l", "a", "h", "i_dotless", "r", "i">> }

\* arguments of validate_perspective_type
PerspectiveTypes ==
    { <<"A", "p", "p", "a", "r", "e", "n", "t", " ", "G", "e", "o", "c", "e", "n", "t", "r", "i", "c">>,
      <<"a", "p", "p", "a", "r", "e", "n", "t", " ", "g", "e", "o", "c", "e", "n", "t", "r", "i", "c">>,
      <<"H", "e", "l", "i", "o", "c", "e", "n", "t", "r", "i", "c">>,
      <<"H", "E", "L", "I", "O", "C", "E", "N", "T", "R", "I", "C">>,
      <<"T", "o", "p", "o", "c", "e", "n", "t", "r", "i", "c">>,
      <<"t", "O", "P", "O", "C", "E", "N", "T", "R", "I", "C">>,
      <<"h", "e", "l", "i", "o">>,
      <<"c", "e", "n", "t", "r", "i", "c">>,
      <<"G", "e", "o", "c", "e", "n", "t", "r", "i", "c">>,
      <<"t", "o", "p", "o">>,
      <<"e">>,
      <<>>,
      <<"T", "r", "u", "e", " ", "G", "e", "o", "c", "e", "n", "t", "r", "i", "c">>,
      <<"b", "o", "g", "u", "s">>,
      <<"h", "e", "l", "i", "o", "c", "e", "n", "t", "r", "i", "c", "x">>,
      <<" ">>,
      <<"H", "e", "l", "i", "o", "-", "c", "e", "n", "t", "r", "i", "c">>,
      <<"K_kelvin">> }

\* arguments of validate_chart_style besides the spellings of "full"
OtherChartStyles ==
    { <<"w", "h", "e", "e", "l", "_", "o", "n", "l", "y">>,
      <<"W", "H", "E", "E", "L", "_", "O", "N", "L", "Y">>,
      <<"w", "h", "e", "e", "l">>,
      <<"a", "s", "p", "e", "c", "t", "_", "g", "r", "i", "d">>,
      <<"A", "s", "p", "e", "c", "t", "_", "G", "r", "i", "d">>,
      <<"a", "s", "p", "e", "c", "t", "-", "g", "r", "i", "d">>,
      <<>>,
      <<"c", "l", "a", "s", "s", "i", "c">> }

\* values of zodiac_type a tool is called with
ZodiacTypes ==
    { <<"T", "r", "o", "p", "i", "c", "a", "l">>,
      <<"S", "i", "d", "e", "r", "e", "a", "l">>,
      <<"t", "r", "o", "p", "i", "c", "a", "l">>,
      <<"D", "r", "a", "c", "o", "n", "i", "c">>,
      <<>> }

\* the calls of the validators
ValidatorCalls ==
    [fn : {"validate_theme"},
     arg : CaseVariants(VALID_THEMES[3]) \cup OtherThemes]
    \cup [fn : {"validate_language"},
          arg : CaseVariants(VALID_LANGUAGES[2]) \cup OtherLanguages]
    \cup [fn : {"validate_house_system"},
          arg : CaseVariants(VALID_HOUSE_SYSTEMS[1]) \cup OtherHouseSystems]
    \cup [fn : {"validate_sidereal_mode"},
          arg : {NoneValue} \cup CaseVariants(VALID_SIDEREAL_MODES[4])
                   \cup OtherSiderealModes]
    \cup [fn : {"validate_perspective_type"}, arg : PerspectiveTypes]
    \cup [fn : {"validate_chart_style"},
          arg : CaseVariants(VALID_CHART_STYLES[1]) \cup OtherChartStyles]

\* the calls of the tool generate_natal_chart, with the arguments that are
\* validated or passed on to the subject factory
NatalChartCalls ==
    [fn : {"generate_natal_chart"},
     theme : {VALID_THEMES[3], <<"n", "e", "o", "n">>},
     language : {VALID_LANGUAGES[2]},
     house_system : {<<"w">>, <<"Z">>},
     zodiac_type : ZodiacTypes,
     chart_style : {VALID_CHART_STYLES[2], <<>>}]

\* the calls of the tool get_aspects
AspectsCalls ==
    [fn : {"get_aspects"},
     house_system : {<<"w">>, <<"Z">>},
     zodiac_type : ZodiacTypes,
     sidereal_mode : {NoneValue, <<"l", "a", "h", "i", "r", "i">>,
                      <<"b", "o", "g", "u", "s">>}]

InitValidators ==
    /\ \/ call \in ValidatorCalls
       \/ call \in NatalChartCalls
       \/ call \in AspectsCalls
    /\ vpc = "call"
    /\ returned = <<>>
    /\ warnings = <<>>
    /\ factory_args = <<>>
    /\ ResolverUnused
    /\ PipelineUnused

\* the validator fn is called with call.arg and returns  outcome
Returns(fn, outcome) ==
    /\ returned' = outcome.value
    /\ warnings' = warnings \o outcome.warned
    /\ vpc' = "returned"
    /\ UNCHANGED <<call, factory_args, rvars, pvars>>

ValidateTheme ==
    /\ vpc = "call" /\ call.fn = "validate_theme"
    /\ Returns(call.fn, validate_theme(call.arg))

ValidateLanguage ==
    /\ vpc = "call" /\ call.fn = "validate_language"
    /\ Returns(call.fn, validate_language(call.arg))

ValidateHouseSystem ==
    /\ vpc = "call" /\ call.fn = "validate_house_system"
    /\ Returns(call.fn, validate_house_system(call.arg))

ValidateSiderealMode ==
    /\ vpc = "call" /\ call.fn = "validate_sidereal_mode"
    /\ Returns(call.fn, validate_sidereal_mode(call.arg))

ValidatePerspectiveType ==
    /\ vpc = "call" /\ call.fn = "validate_perspective_type"
    /\ Returns(call.fn, validate_perspective_type(call.arg))

ValidateChartStyle ==
    /\ vpc = "call" /\ call.fn = "validate_chart_style"
    /\ Returns(call.fn, validate_chart_style(call.arg))

\* server.py lines 183-198: generate_natal_chart validates theme, language,
\* house_system and chart_style and creates the subject; zodiac_type goes to
\* the factory as it came
GenerateNatalChart ==
    /\ vpc = "call" /\ call.fn = "generate_natal_chart"
    /\ LET theme == validate_theme(call.theme)
           language == validate_language(call.language)
           house_system == validate_house_system(call.house_system)
           chart_style == validate_chart_style(call.chart_style)
       IN  /\ warnings' = warnings \o theme.warned \o language.warned
                             \o house_system.warned \o chart_style.warned
           /\ factory_args' = [houses_system_identifier |-> house_system.value,
                               zodiac_type |-> call.zodiac_type]
           /\ returned' = [chart_type |-> "Natal", chart_style |-> chart_style.value]
    /\ vpc' = "returned"
    /\ UNCHANGED <<call, rvars, pvars>>

\* server.py lines 844-856: get_aspects validates house_system and
\* sidereal_mode and creates the subject; zodiac_type goes to the factory
\* as it came
GetAspects ==
    /\ vpc = "call" /\ call.fn = "get_aspects"
    /\ LET house_system == validate_house_system(call.house_system)
           sidereal_mode == validate_sidereal_mode(call.sidereal_mode)
       IN  /\ warnings' = warnings \o house_system.warned \o sidereal_mode.warned
           /\ factory_args' = [houses_system_identifier |-> house_system.value,
                               zodiac_type |-> call.zodiac_type,
                               sidereal_mode |-> sidereal_mode.value]
    /\ vpc' = "returned"
    /\ UNCHANGED <<call, returned, rvars, pvars>>

NextValidators ==
    \/ ValidateTheme \/ ValidateLanguage \/ ValidateHouseSystem
    \/ ValidateSiderealMode \/ ValidatePerspectiveType \/ ValidateChartStyle
    \/ GenerateNatalChart \/ GetAspects

SpecValidators == InitValidators /\ [][NextValidators]_vars


(***************************************************************************)
(* What a markup declares, read off the text.                              *)
(***************************************************************************)
\* the start indexes of the declarations a left-to-right scan finds
RECURSIVE ScanDecls(_, _)
ScanDecls(s, i) ==
    LET ahead == {p \in i..Len(s) : DeclAt(s, p)}
    IN  IF ahead = {} THEN {}
        ELSE LET p == Least(ahead)
             IN  {p} \cup ScanDecls(s, DeclEnd(s, p) + 1)

DeclaredNames(s) == {DeclName(s, p) : p \in ScanDecls(s, 1)}

\* the starts of the declarations of name n
DeclsOf(s, n) == {p \in ScanDecls(s, 1) : DeclName(s, p) = n}

\* the text between ":" and ";" of the last declaration of n
LastRawValue(s, n) ==
    LET p == CHOOSE q \in DeclsOf(s, n) : \A o \in DeclsOf(s, n) : o <= q
    IN  SubSeq(s, NameEnd(s, p + 2) + 2, DeclEnd(s, p) - 1)

\* the text  var(--n)
RefText(n) == VarOpen \o n \o <<")">>

\* the table as declared, before any declaration is resolved
Declared == ExtractDefs(svg_string)

\* the text of s from index i on, with every reference replaced by the
\* stripped value of the last declaration of its name in the markup
RECURSIVE ReplaceEach(_, _)
ReplaceEach(s, i) ==
    LET ahead == {p \in i..Len(s) : RefAt(s, p)}
    IN  IF ahead = {} THEN SubSeq(s, i, Len(s))
        ELSE LET p == Least(ahead)
             IN  SubSeq(s, i, p - 1)
                   \o (IF RefName(s, p) \in DeclaredNames(svg_string)
                       THEN Strip(LastRawValue(svg_string, RefName(s, p)))
                       ELSE Fallback)
                   \o ReplaceEach(s, RefEnd(s, p) + 1)

\* the markup with every reference replaced once by the declared values
ReplacedOnce == ReplaceEach(svg_string, 1)

(***************************************************************************)
(* C1: a markup with no declaration is returned unchanged.                 *)
(***************************************************************************)
NoDeclaration(s) == \A i \in 1..Len(s) : ~DeclAt(s, i)

\* C1: for every markup without a custom-property declaration the resolver
\* returns its argument unchanged
C1_NoDeclarationIdentity ==
    (pc = "done" /\ NoDeclaration(svg_string)) => ret = svg_string

\* a markup with a reference and an unfinished declaration "--c:" but no
\* declaration has been returned as it was
C1_Witness ==
    /\ pc = "done"
    /\ NoDeclaration(svg_string)
    /\ RefNames(svg_string) # {}
    /\ Contains(svg_string, OpenC)
    /\ ret = svg_string

(***************************************************************************)
(* C2: an undeclared reference becomes the fallback color.                 *)
(***************************************************************************)
\* C2: for every markup, each reference var(--X) to an undeclared X is
\* replaced by #000000 and the text var(--X) is not in the output
C2_UndeclaredBecomesFallback ==
    pc = "done" =>
        \A n \in RefNames(svg_string) \ DeclaredNames(svg_string) :
            Contains(ret, Fallback) /\ ~Contains(ret, RefText(n))

(***************************************************************************)
(* C3: references to declarations with plain values are replaced.          *)
(***************************************************************************)
\* every reference of s has a declaration whose value holds no reference
AllRefsPlain(s) ==
    /\ RefNames(s) # {}
    /\ \A n \in RefNames(s) :
          n \in DeclaredNames(s) /\ RefNames(Strip(LastRawValue(s, n))) = {}

\* the output is the markup with each reference replaced by the declared
\* value, and it holds no reference to a declared name
C3_Replaced ==
    /\ ret = ReplacedOnce
    /\ RefNames(ret) \cap DeclaredNames(svg_string) = {}

IsSingleRef(v) == RefAt(v, 1) /\ RefEnd(v, 1) = Len(v)

\* the number of references followed from n to a literal value, -1 when
\* none is reached within fuel steps
RECURSIVE Hops(_, _, _)
Hops(D, n, fuel) ==
    LET v == Get(D, n)
    IN  IF ~Contains(v, VarOpen) THEN 0
        ELSE IF fuel = 0 \/ ~IsSingleRef(v) \/ ~HasKey(D, RefName(v, 1)) THEN -1
        ELSE LET h == Hops(D, RefName(v, 1), fuel - 1)
             IN  IF h = -1 THEN -1 ELSE h + 1

\* the literal value at the end of the chain that starts at n
RECURSIVE FinalValue(_, _, _)
FinalValue(D, n, fuel) ==
    LET v == Get(D, n)
    IN  IF fuel = 0 \/ ~Contains(v, VarOpen) THEN v
        ELSE FinalValue(D, RefName(v, 1), fuel - 1)

\* every declared value is a literal or one reference to a declared name,
\* no chain runs into a cycle, and some chain has two hops or more
IsChain(D) ==
    /\ \A k \in 1..Len(D) : Hops(D, D[k].name, Len(D)) >= 0
    /\ \E k \in 1..Len(D) : Hops(D, D[k].name, Len(D)) >= 2

FinalTable(D) ==
    [k \in 1..Len(D) |->
        [name |-> D[k].name, value |-> FinalValue(D, D[k].name, Len(D))]]

\* C4: for an acyclic chain of declarations of two or more hops, in any
\* order of the declarations, the table maps each name to the final literal
\* of its chain and the output is the markup with each use replaced by it
\* (replaced again, at most twice, where the replaced text forms a reference)
C4_ChainResolved ==
    (pc = "done" /\ IsChain(Declared)) =>
        LET T  == FinalTable(Declared)
            t1 == SubVars(svg_string, T)
            t2 == SubVars(t1, T)
            t3 == SubVars(t2, T)
        IN  /\ var_defs = T
            /\ IF RefNames(t1) = {} THEN ret = t1 ELSE ret \in {t2, t3}

\* the chain a -> b -> c -> r declared in the order a, b, c, with a use of a
C4_Witness ==
    /\ pc = "done"
    /\ svg_string = DeclAB \o DeclBC \o DeclC \o NestedRef(0)
    /\ Get(var_defs, <<"a">>) = <<"r">>
    /\ iter = 3
    /\ ret = <<"-", "-", "a", ":", " ", "r", ";",
               "-", "-", "b", ":", "r", ";">> \o DeclC \o <<"r">>

(***************************************************************************)
(* C5: resolving a result again.                                           *)
(***************************************************************************)
\* C5: the resolver is idempotent: resolving what a call returned returns it
\* unchanged
C5_Idempotent == (pc = "done" /\ rerun) => ret = svg_string

(***************************************************************************)
(* C6: no reference to a declared name is left.                            *)
(***************************************************************************)
\* C6: for every markup, cyclic and self-referencing declarations included,
\* the output holds no reference var(--X) with X declared in the markup
C6_NoDeclaredReferenceLeft ==
    pc = "done" => RefNames(ret) \cap DeclaredNames(svg_string) = {}

(***************************************************************************)
(* C7: termination within the pass bounds.                                 *)
(***************************************************************************)
\* a step of the call is enabled: the guards of Extract, NestedPass, SubstPass
CanStep ==
    \/ pc = "extract"
    \/ pc = "nested" /\ iter < MaxIterations
    \/ pc = "subst" /\ passes < MaxPasses

\* C7: the call always goes on until it returns; the declaration loop runs
\* at most 10 passes and only after a pass that updated a value, the
\* substitution loop at most 3 passes and only after a pass that changed the
\* text, and what is returned is a string
C7_TerminatesWithinBounds ==
    /\ iter <= 10
    /\ passes <= 3
    /\ (pc = "nested" /\ iter > 0) => updated
    /\ (pc = "subst" /\ passes > 0) => changed
    /\ (pc = "subst" /\ iter < 10) => ~updated
    /\ (pc = "done" /\ var_defs # <<>> /\ passes < 3) => ~changed
    /\ pc # "done" => CanStep
    /\ pc = "done" => ret \in Seq(Chars)

\* a self-referencing declaration has used up all 10 declaration passes and
\* all 3 substitution passes, each of them changing something
C7_Witness ==
    /\ pc = "done"
    /\ iter = 10
    /\ updated
    /\ passes = 3
    /\ changed

(***************************************************************************)
(* C8: the last declaration of a name wins.                                *)
(***************************************************************************)
\* k-fold substitution of the table T into s
RECURSIVE Resub(_, _, _)
Resub(s, T, k) == IF k = 0 THEN s ELSE Resub(SubVars(s, T), T, k - 1)

\* C8: the table holds one entry per declared name; after extraction the
\* entry is the trimmed value of the last declaration of the name, and when
\* that value holds no reference it is what the references to the name are
\* replaced with
C8_LastDeclarationWins ==
    pc # "extract" =>
        /\ \A j, k \in 1..Len(var_defs) :
              var_defs[j].name = var_defs[k].name => j = k
        /\ {var_defs[k].name : k \in 1..Len(var_defs)} = DeclaredNames(svg_string)
        /\ \A n \in DeclaredNames(svg_string) :
              LET raw == LastRawValue(svg_string, n)
                  v   == Get(var_defs, n)
              IN  /\ (pc = "nested" /\ iter = 0) =>
                        /\ \E i, j \in 1..Len(raw) + 1 :
                              /\ v = SubSeq(raw, i, j - 1)
                              /\ \A k \in 1..Len(raw) :
                                    (k < i \/ k >= j) => raw[k] \in SpaceChars
                        /\ v # <<>> => v[1] \notin SpaceChars /\ v[Len(v)] \notin SpaceChars
                  /\ (pc = "done" /\ ~Contains(raw, VarOpen)) =>
                        /\ v = Strip(raw)
                        /\ ret \in {Resub(svg_string, var_defs, k) : k \in 1..3}

\* a name declared twice with different values, the last one written with
\* surrounding spaces, and referenced
C8_Witness ==
    /\ pc = "done"
    /\ \E n \in DeclaredNames(svg_string) \cap RefNames(svg_string) :
          /\ \E p, q \in DeclsOf(svg_string, n) :
                DeclValue(svg_string, p) # DeclValue(svg_string, q)
          /\ LastRawValue(svg_string, n) # Strip(LastRawValue(svg_string, n))
          /\ Get(var_defs, n) = Strip(LastRawValue(svg_string, n))
          /\ ~Contains(ret, RefText(n))

(***************************************************************************)
(* C9: the vector file and its name.                                       *)
(***************************************************************************)
\* the characters the sanitizing keeps: letters, digits, underscore, hyphen
KeptChars == LowerLetters \cup UpperLetters \cup Digits \cup {"_", "-"}

\* name is the lowercased chart_name with every other character as "_",
\* then "_", then a timestamp of 8 digits, "_" and 6 digits (14 digits)
IsBaseNameOf(name, chart_name) ==
    LET n == Len(chart_name)
    IN  /\ Len(name) = n + 16
        /\ \A k \in 1..n :
              name[k] = IF chart_name[k] \in KeptChars
                        THEN Lower(chart_name[k]) ELSE "_"
        /\ name[n + 1] = "_"
        /\ \A k \in 1..15 : IF k = 9 THEN name[n + 1 + k] = "_"
                                     ELSE name[n + 1 + k] \in Digits
        /\ Cardinality({k \in 1..15 : name[n + 1 + k] \in Digits}) = 14

\* my_chart__
SafeMyChart == <<"m", "y", "_", "c", "h", "a", "r", "t", "_", "_">>

\* C9: an invocation with save_svg and without save_png that returns has
\* written exactly one file, named <sanitized name>_<timestamp>.svg in the
\* output directory (my_chart___<timestamp>.svg for "My Chart!!"), and its
\* result has no png_path
C9_OneVectorFile ==
    \A p \in Calls :
        (ppc[p] = "done" /\ args[p].save_svg /\ ~args[p].save_png) =>
            /\ Cardinality(written[p]) = 1
            /\ \E name \in {base_name[p]} :
                  /\ IsBaseNameOf(name, args[p].chart_name)
                  /\ args[p].chart_name = NameMyChart =>
                        SubSeq(name, 1, 11) = SafeMyChart \o <<"_">>
                  /\ written[p] = {out_path[p] \o <<"/">> \o name \o SvgExt}
            /\ written[p] \subseteq DOMAIN files
            /\ "png_path" \notin DOMAIN result[p]
            /\ result[p]["svg_path"] \in written[p]

\* "My Chart!!" has been saved as a vector file only, in the default directory
C9_Witness ==
    /\ ppc[1] = "done"
    /\ args[1].chart_name = NameMyChart
    /\ args[1].save_svg /\ ~args[1].save_png
    /\ args[1].output_dir = NoneValue
    /\ now = 1
    /\ written[1] = {DefaultDir \o <<"/">> \o SafeMyChart \o <<"_">>
                        \o Timestamp(0) \o SvgExt}
    /\ files[result[1]["svg_path"]] = WriteText(MarkupDeclared)

(***************************************************************************)
(* C10: a missing or failing raster backend.                               *)
(***************************************************************************)
\* the raster backend was asked for by p and is missing, or has raised
BackendMissing(p) == args[p].save_png /\ ~has_cairosvg
BackendRaised(p) ==
    /\ args[p].save_png /\ has_cairosvg
    /\ backend_in[p] # <<>>
    /\ png_bytes[p] = NoneValue

\* the result of an invocation that produces no raster file
ResultWithoutPng(p) ==
    LET svg_path == FilePath(ResolvedDir(p), base_name[p], SvgExt)
        base == ("status" :> "success") @@ ("output_dir" :> ResolvedDir(p))
    IN  IF args[p].save_svg
        THEN base @@ ("svg_path" :> svg_path)
                  @@ ("summary" :> Summary(svg_path, NoneValue))
        ELSE base @@ ("summary" :> Summary(NoneValue, NoneValue))

\* C10: when the raster output is requested and the backend is missing or
\* raises, the invocation does not raise at the raster steps, and the result
\* it returns has status "success", svg_path when save_svg, no png_path; it
\* is the same result in both cases
C10_BackendFailureDegrades ==
    \A p \in Calls :
        (BackendMissing(p) \/ BackendRaised(p)) =>
            /\ ppc[p] # "raised_png"
            /\ ppc[p] \in {"write_png", "summary", "done"} => png_bytes[p] = NoneValue
            /\ ppc[p] = "done" =>
                  /\ result[p] = ResultWithoutPng(p)
                  /\ result[p]["status"] = "success"
                  /\ args[p].save_svg <=> "svg_path" \in DOMAIN result[p]
                  /\ "png_path" \notin DOMAIN result[p]

\* invocation 1 has returned after the backend raised, with a vector file
C10_Witness ==
    /\ ppc[1] = "done"
    /\ BackendRaised(1)
    /\ args[1].save_svg
    /\ "svg_path" \in DOMAIN result[1]
    /\ "png_path" \notin DOMAIN result[1]

(***************************************************************************)
(* C11: a failure of the storage is a hard failure of the invocation.      *)
(***************************************************************************)
\* the positions of an invocation after an exception has left it
Raised == {"raised_mkdir", "raised_svg", "raised_png"}

\* the operations on the storage
StorageOps == {"mkdir", "write_svg", "write_png"}

\* invocation p attempted op and it failed
Failed(p, op) ==
    \E k \in 1..Len(attempts[p]) : attempts[p][k] = Event(op, FALSE)

\* C11: once the creation of the directory, the vector write or the raster
\* write of an invocation has failed, the invocation has ended with the
\* exception: it attempts nothing more, never returns, and no summary is
\* added to a result record
C11_StorageFailurePropagates ==
    \A p \in Calls : \A op \in StorageOps :
        Failed(p, op) =>
            /\ ppc[p] \in Raised
            /\ attempts[p][Len(attempts[p])] = Event(op, FALSE)
            /\ "summary" \notin DOMAIN result[p]

\* the raster write of invocation 1 failed after its vector file was
\* written: the file is there and the invocation has raised
C11_Witness ==
    /\ ppc[1] = "raised_png"
    /\ Failed(1, "write_png")
    /\ Cardinality(written[1]) = 1
    /\ written[1] \subseteq DOMAIN files

(***************************************************************************)
(* C12: when a result record is returned.                                  *)
(***************************************************************************)
\* the base name of p is derived and its output directory is resolved
DirResolved(p) ==
    /\ base_name[p] # <<>>
    /\ \E k \in 1..Len(attempts[p]) : attempts[p][k] = Event("mkdir", TRUE)

\* p is on its way to the result record with status "success", or has
\* returned it
OnWayToSuccess(p) ==
    /\ ppc[p] \in {"svg", "png", "write_png", "summary", "done"}
    /\ result[p]["status"] = "success"
    /\ ppc[p] = "done" => "summary" \in DOMAIN result[p]

\* C12 as stated: once the base name is derived and the directory is
\* resolved the invocation goes on to return a result with status
\* "success", whether or not a file write fails
C12_Original == \A p \in Calls : DirResolved(p) => OnWayToSuccess(p)

\* C12, amended: once the base name is derived and the directory is
\* resolved, and as long as no file write has failed, the invocation goes
\* on to return a result with status "success"; a failed or missing raster
\* conversion does not prevent it
C12_SuccessUnlessWriteFails ==
    \A p \in Calls :
        (DirResolved(p) /\ ~Failed(p, "write_svg") /\ ~Failed(p, "write_png"))
            => OnWayToSuccess(p)

\* invocation 2 has returned a result with the raster file only, and
\* invocation 1 one without any file after its conversion failed
C12_Witness ==
    /\ ppc[2] = "done" /\ ppc[1] = "done"
    /\ ~args[2].save_svg /\ ~args[1].save_svg
    /\ DOMAIN result[2] = {"status", "output_dir", "png_path", "summary"}
    /\ attempts[1] = <<Event("mkdir", TRUE), Event("convert", FALSE)>>
    /\ DOMAIN result[1] = {"status", "output_dir", "summary"}
    /\ result[1]["status"] = "success" /\ result[2]["status"] = "success"

(***************************************************************************)
(* C13: repeated calls with one logical name.                              *)
(***************************************************************************)
\* p was called after q had returned, with the same logical name and the
\* same output directory
RepeatOf(p, q) ==
    /\ q \in earlier[p]
    /\ args[p].chart_name = args[q].chart_name
    /\ ResolvedDir(p) = ResolvedDir(q)

\* C13: a call repeated with the same logical name and output directory
\* gets a base name distinct from the earlier call's, and writes to no
\* file path the earlier call wrote
C13_RepeatedCallsDistinct ==
    \A p \in Calls : \A q \in Calls \ {p} :
        RepeatOf(p, q) =>
            /\ base_name[p] # base_name[q]
            /\ written[p] \cap written[q] = {}

(***************************************************************************)
(* C14: interleaved invocations with different keys.                       *)
(***************************************************************************)
\* the key of an invocation that has begun: sanitized name and timestamp
Key(p) == <<SafeName(args[p].chart_name), timestamp[p]>>

\* every path in the result of p names a file with the content p wrote
ResultFilesIntact(p) ==
    /\ "svg_path" \in DOMAIN result[p] =>
          /\ result[p]["svg_path"] \in DOMAIN files
          /\ files[result[p]["svg_path"]] = WriteText(args[p].svg_string)
    /\ "png_path" \in DOMAIN result[p] =>
          /\ result[p]["png_path"] \in DOMAIN files
          /\ files[result[p]["png_path"]] = [kind |-> "bytes", data |-> png_bytes[p]]

\* C14: two invocations on the same output directory whose keys differ
\* write disjoint sets of file paths, and when both have returned every
\* path in each result names a file with the content that invocation wrote
C14_DistinctKeysDisjointFiles ==
    \A p \in Calls : \A q \in Calls \ {p} :
        (/\ timestamp[p] # <<>> /\ timestamp[q] # <<>>
         /\ ResolvedDir(p) = ResolvedDir(q)
         /\ Key(p) # Key(q)) =>
            /\ written[p] \cap written[q] = {}
            /\ (ppc[p] = "done" /\ ppc[q] = "done") =>
                  ResultFilesIntact(p) /\ ResultFilesIntact(q)

\* both invocations have returned with a vector and a raster file each in
\* the directory /o, under the same name and timestamps one second apart,
\* and the second began before the first had returned
C14_Witness ==
    /\ ppc[1] = "done" /\ ppc[2] = "done"
    /\ args[1].chart_name = args[2].chart_name
    /\ timestamp[1] # timestamp[2]
    /\ out_path[1] = OutDir /\ out_path[2] = OutDir
    /\ earlier[1] = {} /\ earlier[2] = {}
    /\ Cardinality(written[1] \cup written[2]) = 4
    /\ ResultFilesIntact(1) /\ ResultFilesIntact(2)

(***************************************************************************)
(* C15: resolving the output directory again, and concurrently.            *)
(***************************************************************************)
\* this step is invocation p leaving the resolution of its directory
ResolvesDir(p) == ppc[p] = "dir" /\ ppc'[p] # "dir"

\* C15: a resolution of a directory that exists succeeds and leaves the
\* directories and the files as they are; of two invocations that resolve
\* the same absent directory, the one that comes second to a first that
\* created it succeeds as well
C15_ResolutionToleratesExisting ==
    [][\A p \in Calls :
          (ResolvesDir(p) /\ ResolvedDir(p) \in dirs) =>
              /\ ppc'[p] = "svg"
              /\ out_path'[p] = ResolvedDir(p)
              /\ dirs' = dirs
              /\ files' = files]_vars

\* both invocations were at the resolution of the same directory when it
\* was absent, and both have resolved it
C15_Witness ==
    /\ OldFile \notin DOMAIN files
    /\ \A p \in Calls :
          /\ ppc[p] = "svg"
          /\ attempts[p] = <<Event("mkdir", TRUE)>>
          /\ out_path[p] = OutDir

(***************************************************************************)
(* C16: no operation is attempted twice.                                   *)
(***************************************************************************)
\* how often invocation p has attempted op
TimesAttempted(p, op) ==
    Cardinality({k \in 1..Len(attempts[p]) : attempts[p][k].op = op})

\* C16: within one invocation the directory creation, the vector write,
\* the raster conversion and the raster write are each attempted at most
\* once, also after one of them has failed, and the backend is called at
\* most once
C16_AttemptedAtMostOnce ==
    \A p \in Calls :
        /\ \A op \in {"mkdir", "write_svg", "convert", "write_png"} :
              TimesAttempted(p, op) <= 1
        /\ Len(backend_in[p]) <= 1

\* invocation 1 has attempted all four operations once and ended with the
\* failure of the raster write; invocation 2 returned after its conversion
\* failed
C16_Witness ==
    /\ attempts[1] = <<Event("mkdir", TRUE), Event("write_svg", TRUE),
                       Event("convert", TRUE), Event("write_png", FALSE)>>
    /\ ppc[1] = "raised_png"
    /\ attempts[2] = <<Event("mkdir", TRUE), Event("write_svg", TRUE),
                       Event("convert", FALSE)>>
    /\ ppc[2] = "done"

(***************************************************************************)
(* C17: the backend sees resolved markup only.                             *)
(***************************************************************************)
\* --a:a;a , which is  --a:a;var(--a)  resolved
ResolvedDeclared == DeclAA \o <<"a">>

\* C17: every bytestring an invocation has handed to the backend is the
\* UTF-8 encoding of the resolver's output for the invocation's markup; for
\* the markup --a:a;var(--a) that is the encoding of --a:a;a and not the
\* encoding of the markup
C17_BackendGetsResolvedMarkup ==
    \A p \in Calls : \A k \in 1..Len(backend_in[p]) :
        /\ backend_in[p][k] = Utf8(ResolveCss(args[p].svg_string))
        /\ args[p].svg_string = MarkupDeclared =>
              /\ backend_in[p][k] = Utf8(ResolvedDeclared)
              /\ backend_in[p][k] # Utf8(args[p].svg_string)

\* the backend has been called for the markup --a:a;var(--a) and has
\* returned an image, which was written
C17_Witness ==
    /\ args[1].svg_string = MarkupDeclared
    /\ backend_in[1] = <<Utf8(ResolvedDeclared)>>
    /\ png_bytes[1] = Rasterized(Utf8(ResolvedDeclared))
    /\ "png_path" \in DOMAIN result[1]

(***************************************************************************)
(* C18: the vector file holds the markup as passed in.                     *)
(***************************************************************************)
\* the string a sequence of UTF-8 bytes decodes to
Utf8Decode(bytes) == [k \in 1..Len(bytes) |-> bytes[k][2]]

\* this step is the vector write of invocation p, and it succeeds
WritesSvg(p) == ppc[p] = "svg" /\ ppc'[p] = "png" /\ args[p].save_svg

\* C18: the vector write of an invocation leaves a file that decodes to
\* exactly the markup passed in; for the markup --a:a;var(--a) the file
\* does not hold the resolved markup --a:a;a, whether or not raster output
\* is requested
C18_VectorFileIsMarkup ==
    [][\A p \in Calls :
          WritesSvg(p) =>
              LET svg_path == FilePath(out_path[p], base_name[p], SvgExt)
              IN  /\ svg_path \in DOMAIN files'
                  /\ files'[svg_path].kind = "text"
                  /\ Utf8Decode(files'[svg_path].data) = args[p].svg_string
                  /\ args[p].svg_string = MarkupDeclared =>
                        Utf8Decode(files'[svg_path].data) # ResolvedDeclared]_vars

\* invocation 1 has returned with both files for --a:a;var(--a): the
\* raster file made from the resolved markup, the vector file holding the
\* markup with its declaration and reference
C18_Witness ==
    /\ ppc[1] = "done"
    /\ args[1].svg_string = MarkupDeclared
    /\ "png_path" \in DOMAIN result[1]
    /\ files[result[1]["png_path"]].data = Rasterized(Utf8(ResolvedDeclared))
    /\ "svg_path" \in DOMAIN result[1]
    /\ Utf8Decode(files[result[1]["svg_path"]].data) = MarkupDeclared
    /\ RefNames(Utf8Decode(files[result[1]["svg_path"]].data)) # {}

(***************************************************************************)
(* C19: the summary agrees with the paths of the result.                   *)
(***************************************************************************)
\* s ends with the text t
EndsWith(s, t) ==
    Len(s) >= Len(t) /\ SubSeq(s, Len(s) - Len(t) + 1, Len(s)) = t

\* the text the summary shows for a path of the result: the path when the
\* key is in the result, N/A when it is not
Shown(r, key) == IF key \in DOMAIN r THEN r[key] ELSE <<"N", "/", "A">>

\* C19: the summary of every returned result is
\* "Chart generated successfully. SVG: <svg>, PNG: <png>" where <svg> is
\* svg_path when the result has one and N/A otherwise, and <png> is
\* png_path when the result has one and N/A otherwise
C19_SummaryAgreesWithPaths ==
    \A p \in Calls :
        ppc[p] = "done" =>
            /\ result[p]["summary"] =
                  <<"Chart generated successfully. SVG: ">>
                      \o Shown(result[p], "svg_path")
                      \o <<", PNG: ">> \o Shown(result[p], "png_path")
            /\ EndsWith(result[p]["summary"], Shown(result[p], "png_path"))
            /\ "svg_path" \in DOMAIN result[p] <=> svg_path_str[p] # NoneValue
            /\ "png_path" \in DOMAIN result[p] <=> png_path_str[p] # NoneValue

\* invocation 1 asked for both formats, the backend returned no bytes, and
\* the summary of its result shows the vector path and N/A
C19_Witness ==
    /\ ppc[1] = "done"
    /\ args[1].save_svg /\ args[1].save_png
    /\ png_bytes[1] = <<>>
    /\ DOMAIN result[1] = {"status", "output_dir", "svg_path", "summary"}
    /\ result[1]["summary"] =
          <<"Chart generated successfully. SVG: ">> \o result[1]["svg_path"]
              \o <<", PNG: ", "N", "/", "A">>

(***************************************************************************)
(* C20: the directory the files go to.                                     *)
(***************************************************************************)
\* the caller of p supplied a directory: output_dir is neither None nor
\* the empty string
Supplied(p) == args[p].output_dir # NoneValue /\ args[p].output_dir # <<>>

\* d is the directory the caller named, written with or without a
\* trailing separator
NamesSupplied(d, p) ==
    args[p].output_dir = d \/ args[p].output_dir = d \o <<"/">>

\* path names a file directly in the directory d
DirectlyIn(path, d) ==
    /\ Len(path) > Len(d) + 1
    /\ SubSeq(path, 1, Len(d) + 1) = d \o <<"/">>
    /\ \A k \in (Len(d) + 2)..Len(path) : path[k] # "/"

\* C20: an invocation that has resolved its directory uses the directory
\* the caller supplied, which then exists, reports it as output_dir and
\* writes all its files directly in it; it uses the default directory
\* under the home directory when, and only when, none was supplied
C20_SuppliedDirectoryUsed ==
    \A p \in Calls :
        ppc[p] \in {"svg", "png", "write_png", "summary", "done"} =>
            /\ Supplied(p) => NamesSupplied(out_path[p], p)
            /\ ~Supplied(p) <=> out_path[p] = DefaultDir
            /\ out_path[p] \in dirs
            /\ result[p]["output_dir"] = out_path[p]
            /\ \A path \in written[p] : DirectlyIn(path, out_path[p])

\* invocation 1 was given the absent directory /o/ and has returned with
\* two files in /o, which now exists, while the default directory does not
C20_Witness ==
    /\ ppc[1] = "done" /\ ppc[2] = "begin"
    /\ args[1].output_dir = OutDirSlash
    /\ dirs = {OutDir}
    /\ result[1]["output_dir"] = OutDir
    /\ Cardinality(written[1]) = 2
    /\ \A path \in written[1] : DirectlyIn(path, OutDir) /\ path \in DOMAIN files

(***************************************************************************)
(* C21: theme, language, house system and chart style.                     *)
(***************************************************************************)
\* the validators that normalize to lower case, and those to upper case
LowerValidators == {"validate_theme", "validate_chart_style"}
UpperValidators == {"validate_language", "validate_house_system"}

\* the argument of the call in the validator's case
NormalizedArg ==
    IF call.fn \in LowerValidators THEN StrLower(call.arg) ELSE StrUpper(call.arg)

\* the fixed set of the validator called
ValidSet ==
    CASE call.fn = "validate_theme" -> Items(VALID_THEMES)
      [] call.fn = "validate_language" -> Items(VALID_LANGUAGES)
      [] call.fn = "validate_house_system" -> Items(VALID_HOUSE_SYSTEMS)
      [] call.fn = "validate_chart_style" -> Items(VALID_CHART_STYLES)

\* the documented default of the validator called: classic, EN, P, full
DocumentedDefault ==
    CASE call.fn = "validate_theme" -> <<"c", "l", "a", "s", "s", "i", "c">>
      [] call.fn = "validate_language" -> <<"E", "N">>
      [] call.fn = "validate_house_system" -> <<"P">>
      [] call.fn = "validate_chart_style" -> <<"f", "u", "l", "l">>

\* the name the validator called gives its argument in the diagnostic
ArgName ==
    CASE call.fn = "validate_theme" -> "theme"
      [] call.fn = "validate_language" -> "language"
      [] call.fn = "validate_house_system" -> "house_system"
      [] call.fn = "validate_chart_style" -> "chart_style"

\* C21: validate_theme, validate_language, validate_house_system and
\* validate_chart_style return the case-normalized argument without a
\* diagnostic when it is in the validator's set, and the default with one
\* diagnostic otherwise; validate_theme("DARK") is "dark" and
\* validate_theme("neon") is "classic"
C21_NormalizedMemberOrDefault ==
    (vpc = "returned" /\ call.fn \in LowerValidators \cup UpperValidators) =>
        /\ NormalizedArg \in ValidSet =>
              returned = NormalizedArg /\ warnings = <<>>
        /\ NormalizedArg \notin ValidSet =>
              /\ returned = DocumentedDefault
              /\ warnings = <<[validator |-> ArgName, input |-> call.arg]>>
        /\ call = [fn |-> "validate_theme", arg |-> <<"D", "A", "R", "K">>] =>
              returned = <<"d", "a", "r", "k">>
        /\ call = [fn |-> "validate_theme", arg |-> <<"n", "e", "o", "n">>] =>
              returned = <<"c", "l", "a", "s", "s", "i", "c">>

\* validate_theme("DARK") has returned "dark" without a diagnostic
C21_Witness ==
    /\ vpc = "returned"
    /\ call = [fn |-> "validate_theme", arg |-> <<"D", "A", "R", "K">>]
    /\ returned = <<"d", "a", "r", "k">>
    /\ warnings = <<>>

(***************************************************************************)
(* C22: the sidereal mode.                                                 *)
(***************************************************************************)
\* C22: validate_sidereal_mode returns None without a diagnostic for None,
\* None with one diagnostic for a string that is not a sidereal mode after
\* upper-casing, and the upper-cased string without a diagnostic for one
\* that is; a mode it returns is never one the caller did not name
C22_SiderealModeOrNone ==
    (vpc = "returned" /\ call.fn = "validate_sidereal_mode") =>
        /\ call.arg = NoneValue => returned = NoneValue /\ warnings = <<>>
        /\ (call.arg # NoneValue /\ StrUpper(call.arg) \notin Items(VALID_SIDEREAL_MODES)) =>
              /\ returned = NoneValue
              /\ warnings = <<[validator |-> "sidereal_mode", input |-> call.arg]>>
        /\ (call.arg # NoneValue /\ StrUpper(call.arg) \in Items(VALID_SIDEREAL_MODES)) =>
              returned = StrUpper(call.arg) /\ warnings = <<>>
        /\ returned # NoneValue => returned = StrUpper(call.arg)

\* validate_sidereal_mode("bogus") has returned None with a diagnostic
C22_Witness ==
    /\ vpc = "returned"
    /\ call = [fn |-> "validate_sidereal_mode", arg |-> <<"b", "o", "g", "u", "s">>]
    /\ returned = NoneValue
    /\ Len(warnings) = 1

(***************************************************************************)
(* C23: the perspective type.                                              *)
(***************************************************************************)
\* the positions in VALID_PERSPECTIVE_TYPES of the types equal to the
\* argument ignoring case, and of those that contain it ignoring case
EqualTypes ==
    {k \in 1..Len(VALID_PERSPECTIVE_TYPES) :
        StrLower(call.arg) = StrLower(VALID_PERSPECTIVE_TYPES[k])}
ContainingTypes ==
    {k \in 1..Len(VALID_PERSPECTIVE_TYPES) :
        Contains(StrLower(VALID_PERSPECTIVE_TYPES[k]), StrLower(call.arg))}

ApparentGeocentric ==
    <<"A", "p", "p", "a", "r", "e", "n", "t", " ",
      "G", "e", "o", "c", "e", "n", "t", "r", "i", "c">>
Heliocentric == <<"H", "e", "l", "i", "o", "c", "e", "n", "t", "r", "i", "c">>

\* the argument is answered with the default and one diagnostic
DefaultedWithDiagnostic ==
    /\ returned = ApparentGeocentric
    /\ warnings = <<[validator |-> "perspective_type", input |-> call.arg]>>

\* C23 as stated: an argument equal to a type ignoring case gets that
\* type, and every argument that is not gets the default "Apparent
\* Geocentric" and a diagnostic
C23_Original ==
    (vpc = "returned" /\ call.fn = "validate_perspective_type") =>
        /\ \A k \in EqualTypes : returned = VALID_PERSPECTIVE_TYPES[k]
        /\ EqualTypes = {} => DefaultedWithDiagnostic

\* C23, amended: an argument equal to a type ignoring case gets that type;
\* any other argument contained, ignoring case, in a type gets the first
\* such type of the list, without a diagnostic ("helio" gets
\* "Heliocentric", "centric" and the empty string "Apparent Geocentric");
\* an argument contained in no type gets the default and a diagnostic
C23_MemberPartialOrDefault ==
    (vpc = "returned" /\ call.fn = "validate_perspective_type") =>
        /\ \A k \in EqualTypes :
              returned = VALID_PERSPECTIVE_TYPES[k] /\ warnings = <<>>
        /\ (EqualTypes = {} /\ ContainingTypes # {}) =>
              /\ returned = VALID_PERSPECTIVE_TYPES[Least(ContainingTypes)]
              /\ warnings = <<>>
        /\ ContainingTypes = {} => DefaultedWithDiagnostic
        /\ call.arg = <<"h", "e", "l", "i", "o">> => returned = Heliocentric
        /\ call.arg \in {<<>>, <<"c", "e", "n", "t", "r", "i", "c">>} =>
              returned = ApparentGeocentric /\ warnings = <<>>

\* validate_perspective_type("helio") has returned "Heliocentric" without
\* a diagnostic
C23_Witness ==
    /\ vpc = "returned"
    /\ call = [fn |-> "validate_perspective_type", arg |-> <<"h", "e", "l", "i", "o">>]
    /\ returned = Heliocentric
    /\ warnings = <<>>

(***************************************************************************)
(* C24: the zodiac type.                                                   *)
(***************************************************************************)
Tools == {"generate_natal_chart", "get_aspects"}

\* C24: the zodiac_type a chart tool hands to the subject factory is the
\* caller's when that is Tropical or Sidereal, and the default Tropical
\* when it is anything else
C24_ZodiacTypeCoerced ==
    (vpc = "returned" /\ call.fn \in Tools) =>
        /\ factory_args.zodiac_type \in Items(VALID_ZODIAC_TYPES)
        /\ call.zodiac_type \in Items(VALID_ZODIAC_TYPES) =>
              factory_args.zodiac_type = call.zodiac_type
        /\ call.zodiac_type \notin Items(VALID_ZODIAC_TYPES) =>
              factory_args.zodiac_type = VALID_ZODIAC_TYPES[1]

(***************************************************************************)
(* C25: the paths of the result and the files written.                     *)
(***************************************************************************)
\* the paths the result of p names
ResultPaths(p) ==
    {result[p][key] : key \in {"svg_path", "png_path"} \cap DOMAIN result[p]}

\* the conversion of p ran and returned bytes, and not zero of them
ConvertedNonEmpty(p) ==
    /\ backend_in[p] # <<>>
    /\ png_bytes[p] # NoneValue
    /\ Len(png_bytes[p]) > 0

\* C25: in a returned result svg_path is present exactly when save_svg was
\* set, png_path exactly when save_png was set, the backend is available
\* and the conversion returned non-empty bytes; the paths of the result
\* are exactly the files the invocation wrote, so with both flags false
\* it wrote none; the status is "success"
C25_PathsMatchFlagsAndFiles ==
    \A p \in Calls :
        ppc[p] = "done" =>
            /\ "svg_path" \in DOMAIN result[p] <=> args[p].save_svg
            /\ "png_path" \in DOMAIN result[p] <=>
                  (args[p].save_png /\ has_cairosvg /\ ConvertedNonEmpty(p))
            /\ ResultPaths(p) = written[p]
            /\ written[p] \subseteq DOMAIN files
            /\ (~args[p].save_svg /\ ~args[p].save_png) => written[p] = {}
            /\ result[p]["status"] = "success"

\* invocation 1 has returned both paths; invocation 2, called with both
\* flags false, has returned status "success" and has written no file
C25_Witness ==
    /\ ppc[1] = "done" /\ ppc[2] = "done"
    /\ Cardinality(ResultPaths(1)) = 2
    /\ ~args[2].save_svg /\ ~args[2].save_png
    /\ written[2] = {}
    /\ result[2]["status"] = "success"
    /\ result[2]["summary"] = Summary(NoneValue, NoneValue)

(***************************************************************************)
(* C26: the base name holds no path separator.                             *)
(***************************************************************************)
\* ___x , the sanitized form of  ../x
SafeDotDot == <<"_", "_", "_", "x">>

\* C26: the base name an invocation derives holds only letters, digits,
\* underscore and hyphen, whatever the logical name holds, and every file
\* the invocation writes lies directly in the directory it resolved, as
\* <directory>/<base name>.svg or <directory>/<base name>.png
C26_BaseNameStaysInDirectory ==
    \A p \in Calls :
        base_name[p] # <<>> =>
            /\ \A k \in 1..Len(base_name[p]) : base_name[p][k] \in KeptChars
            /\ Len(base_name[p]) = Len(args[p].chart_name) + 16
            /\ \A path \in written[p] :
                  /\ path \in {out_path[p] \o <<"/">> \o base_name[p] \o ext :
                                  ext \in {SvgExt, PngExt}}
                  /\ DirectlyIn(path, out_path[p])

\* invocation 1, called with the name ../x and the directory /o, has
\* returned with two files, both directly in /o under the name ___x_...
C26_Witness ==
    /\ ppc[1] = "done"
    /\ args[1].chart_name = NameDotDot
    /\ SubSeq(base_name[1], 1, 5) = SafeDotDot \o <<"_">>
    /\ Cardinality(written[1]) = 2
    /\ \A path \in written[1] : DirectlyIn(path, OutDir)

(***************************************************************************)
(* C27: the order of the steps, and no rollback.                           *)
(***************************************************************************)
\* the place of an operation in the order of the steps
StepRank(op) ==
    CASE op = "mkdir" -> 1
      [] op = "write_svg" -> 2
      [] op = "convert" -> 3
      [] op = "write_png" -> 4

\* the operations in log were attempted in the order directory
\* resolution, vector write, raster conversion, raster write
InStepOrder(log) ==
    \A j \in 1..Len(log) : \A k \in 1..Len(log) :
        j < k => StepRank(log[j].op) < StepRank(log[k].op)

\* C27: at every step the operations an invocation has attempted are in
\* the order directory resolution, vector write, raster conversion,
\* raster write; an invocation whose directory creation failed has
\* written no file; and no step removes a file or a directory, so the
\* vector file is still there when the raster write has failed and the
\* invocation has raised instead of returning a result
C27_FixedOrderNoRollback ==
    [][/\ DOMAIN files \subseteq DOMAIN files'
       /\ dirs \subseteq dirs'
       /\ \A p \in Calls :
             /\ InStepOrder(attempts'[p])
             /\ Failed(p, "mkdir")' => written'[p] = {}
             /\ written[p] \subseteq written'[p]
             /\ written'[p] \subseteq DOMAIN files'
             /\ (ppc'[p] = "raised_png" /\ args[p].save_svg) =>
                   /\ FilePath(out_path[p], base_name[p], SvgExt) \in DOMAIN files'
                   /\ "summary" \notin DOMAIN result'[p]]_vars

\* the raster write of invocation 1 has failed as the last of its four
\* steps and its vector file is the one file on disk; the directory
\* creation of invocation 2 has failed and it has written nothing
C27_Witness ==
    /\ ppc[1] = "raised_png"
    /\ Len(attempts[1]) = 4
    /\ attempts[1][4] = Event("write_png", FALSE)
    /\ DOMAIN files = {FilePath(out_path[1], base_name[1], SvgExt)}
    /\ ppc[2] = "raised_mkdir"
    /\ written[2] = {}

====
